---- MODULE Spec2Model ----
(***************************************************************************)
(* Model of the graph engine (src/src/Graphs.cpp) and of the binary search *)
(* tree (src/src/Trees.cpp) of cxx-reminder.                                *)
(*                                                                         *)
(* Graph part: the three storage variants behind the Graph contract        *)
(* (GraphEdgeList, GraphAdjecencyMatrix, GraphAdjecencyList) and the three  *)
(* traversals.  Weights are floats in the source; the model draws them     *)
(* from a small set of exactly representable numbers (no NaN), for which   *)
(* float comparison is integer comparison.                                 *)
(***************************************************************************)
EXTENDS Integers, Sequences, FiniteSets, TLC

\* ------------------------------------------------------------------------
\* Bounds of the model
\* ------------------------------------------------------------------------
\* vertexCount handed to the matrix / adjacency-list constructors
VertexCount == 2
\* most edges a graph stores (caps the growth of the edge vectors)
MaxEdges == 2
\* weights passed to SetEdge are 0..MaxWeight
MaxWeight == 2
\* vertexCount of the graphs that are traversed
TravVertexCount == 3
\* most SetEdge calls that build a graph that is traversed
TravMaxEdges == 3
\* the same two bounds for the comparison of the two depth-first traversals
DfsVertexCount == 4
DfsMaxEdges == 4
\* the same two bounds for the breadth-first traversal of directed graphs
BfsVertexCount == 4
BfsMaxEdges == 3
\* node addresses are 1..MaxNodes: most NodeBST alive at a time
MaxNodes == 4
\* values put in a tree are 1..MaxValue
MaxValue == 3
\* most Node an N-ary tree is built of
MaxTreeNodes == 6

VARIABLES
    kind,          \* dynamic type of the Graph object
    m_isDirected,  \* Graph::m_isDirected
    size,          \* vertexCount given to the constructor (m_matrix.size(), m_vertices.size())
    m_edgeList,    \* GraphEdgeList::m_edgeList
    m_matrix,      \* GraphAdjecencyMatrix::m_matrix
    m_vertices,    \* GraphAdjecencyList::m_vertices
    last,          \* the last call made on the graph, with its arguments if it
                   \* was a SetEdge that had an edge to store
    alg,           \* the traversal in progress or finished
    start,         \* its start vertex
    stack,         \* TraverseDepthFirst_NonRecursive: stack (top is the last element)
    queue,         \* TraverseBreathFirst_NonRecursive: queue (front is the first element)
    visited,       \* the traversal's visited vector
    out,           \* the vertices printed so far, in order
    pc,            \* "build" | "loop" | "done"
    treeRoot,      \* the caller's handle to the root NodeBST (Null: no tree)
    m_nodeData,    \* NodeBST::m_nodeData of every node address
    m_parent,      \* NodeBST::m_parent
    m_left,        \* NodeBST::m_left
    m_right,       \* NodeBST::m_right
    alloc,         \* the addresses that hold a live NodeBST
    content,       \* how often each value was put in, less the successful Deletes
    treeLast,      \* the last call made on the tree, with what it returned
    ub,            \* a freed node was used: the behaviour is undefined from here on
    m_children,    \* Node::m_children of every Node address (N-ary tree)
    Node_m_nodeData, \* Node::m_nodeData
    Node_m_parent, \* Node::m_parent
    threadMain,    \* the function the threads of the running demo execute
    tpc,           \* where each thread is in its function
    joined,        \* how many threads the main thread has joined
    g_counter,     \* static int g_counter
    reg,           \* per thread: the value of g_counter it has loaded
    increment,     \* per thread: the parameter `increment` of its current call
    g_mutex,       \* the thread that owns g_mutex (NoThread: unlocked)
    g_recursiveMutex, \* owner of g_recursiveMutex and how often it locked it
    g_sharedValueForCondition, \* static int g_sharedValueForCondition
    g_conditionVarMutex, \* the thread that owns g_conditionVarMutex
    g_conditionVar, \* the threads blocked in g_conditionVar.wait
    SemaphoreCounter \* the counter of the std::counting_semaphore

graphVars == <<kind, m_isDirected, size, m_edgeList, m_matrix, m_vertices>>
travVars == <<alg, start, stack, queue, visited, out, pc>>
treeVars == <<treeRoot, m_nodeData, m_parent, m_left, m_right, alloc, content,
              treeLast, ub>>
nodeVars == <<m_children, Node_m_nodeData, Node_m_parent>>
concVars == <<threadMain, tpc, joined, g_counter, reg, increment, g_mutex,
              g_recursiveMutex, g_sharedValueForCondition, g_conditionVarMutex,
              g_conditionVar, SemaphoreCounter>>
vars == <<kind, m_isDirected, size, m_edgeList, m_matrix, m_vertices, last,
          alg, start, stack, queue, visited, out, pc,
          treeRoot, m_nodeData, m_parent, m_left, m_right, alloc, content,
          treeLast, ub,
          m_children, Node_m_nodeData, Node_m_parent,
          threadMain, tpc, joined, g_counter, reg, increment, g_mutex,
          g_recursiveMutex, g_sharedValueForCondition, g_conditionVarMutex,
          g_conditionVar, SemaphoreCounter>>

\* the weights handed to SetEdge
Weights == 0..MaxWeight

Kinds == {"GraphEdgeList", "GraphAdjecencyMatrix", "GraphAdjecencyList"}

\* struct Edge
Edge(v1, v2, w) == [m_vertex1 |-> v1, m_vertex2 |-> v2, m_weight |-> w]

\* ------------------------------------------------------------------------
\* Helpers
\* ------------------------------------------------------------------------
\* size_t is unsigned: an int compared with a size() is converted modulo the
\* width of size_t.  The modulus stands for 2^64 (the largest power of two
\* the model checker's integers hold comfortably).
SizeTModulus == 2^30

ToSizeT(v) == v % SizeTModulus

\* `v >= container.size()` with v an int
GeSize(v, n) == ToSizeT(v) >= n

\* std::ranges::find_if: index of the first element satisfying the
\* predicate, 0 for end(); hit[i] is the predicate on the i-th element
FindIf(hit) ==
    IF \E i \in 1..Len(hit) : hit[i]
    THEN CHOOSE i \in 1..Len(hit) : hit[i] /\ \A j \in 1..(i - 1) : ~hit[j]
    ELSE 0

\* std::ranges::find(visited, x) == visited.end()
NotIn(s, x) == \A i \in 1..Len(s) : s[i] # x

Reverse(s) == [i \in 1..Len(s) |-> s[Len(s) + 1 - i]]

Range(s) == {s[i] : i \in 1..Len(s)}

\* ------------------------------------------------------------------------
\* GraphEdgeList
\* ------------------------------------------------------------------------
GraphEdgeList_GetEdges(v) ==
    IF m_isDirected
    THEN SelectSeq(m_edgeList, LAMBDA e : e.m_vertex1 = v)
    ELSE SelectSeq(m_edgeList, LAMBDA e : e.m_vertex1 = v \/ e.m_vertex2 = v)

\* mutant: the predicate of an undirected graph used for a directed one too
GraphEdgeList_Match_IgnoresDirection(e, v1, v2) ==
    \/ (e.m_vertex1 = v1 /\ e.m_vertex2 = v2)
    \/ (e.m_vertex1 = v2 /\ e.m_vertex2 = v1)

GraphEdgeList_Match(e, v1, v2) ==
    IF m_isDirected
    THEN e.m_vertex1 = v1 /\ e.m_vertex2 = v2
    ELSE \/ (e.m_vertex1 = v1 /\ e.m_vertex2 = v2)
         \/ (e.m_vertex1 = v2 /\ e.m_vertex2 = v1)

GraphEdgeList_GetEdge(v1, v2) ==
    LET it == FindIf([i \in 1..Len(m_edgeList) |->
                            GraphEdgeList_Match(m_edgeList[i], v1, v2)])
    IN  IF it # 0 THEN m_edgeList[it].m_weight ELSE 0

\* mutant: the early return on weight == 0.0f is missing
GraphEdgeList_Stored_NoZeroCheck(list, v1, v2, weight) ==
    Append(list, Edge(v1, v2, weight))

GraphEdgeList_Stored(list, v1, v2, weight) ==
    IF weight = 0
    THEN list
    ELSE Append(list, Edge(v1, v2, weight))

\* ------------------------------------------------------------------------
\* GraphAdjecencyMatrix
\* ------------------------------------------------------------------------
\* the constructor: vertexCount rows of vertexCount zeros
GraphAdjecencyMatrix_New(n) == [i \in 0..(n - 1) |-> [j \in 0..(n - 1) |-> 0]]

\* the row scan of GetEdges, from column v2 on
RECURSIVE MatrixRowEdges(_, _)
MatrixRowEdges(v, v2) ==
    IF v2 >= size
    THEN <<>>
    ELSE (IF m_matrix[v][v2] # 0
          THEN <<Edge(v, v2, m_matrix[v][v2])>>
          ELSE <<>>) \o MatrixRowEdges(v, v2 + 1)

GraphAdjecencyMatrix_GetEdges(v) ==
    IF GeSize(v, size) THEN <<>> ELSE MatrixRowEdges(v, 0)

GraphAdjecencyMatrix_GetEdge(v1, v2) ==
    IF GeSize(v1, size) \/ GeSize(v2, size)
    THEN 0
    ELSE m_matrix[v1][v2]

GraphAdjecencyMatrix_Stored(m, v1, v2, weight) ==
    IF weight = 0
    THEN m
    ELSE IF GeSize(v1, size) \/ GeSize(v2, size)
    THEN m
    ELSE LET m1 == [m EXCEPT ![v1][v2] = weight]
         IN  IF ~m_isDirected THEN [m1 EXCEPT ![v2][v1] = weight] ELSE m1

\* ------------------------------------------------------------------------
\* GraphAdjecencyList
\* ------------------------------------------------------------------------
GraphAdjecencyList_New(n) == [i \in 0..(n - 1) |-> <<>>]

GraphAdjecencyList_GetEdges(v) ==
    IF GeSize(v, size) THEN <<>> ELSE m_vertices[v]

GraphAdjecencyList_GetEdge(v1, v2) ==
    IF GeSize(v1, size) \/ GeSize(v2, size)
    THEN 0
    ELSE LET it == FindIf([i \in 1..Len(m_vertices[v1]) |->
                                 m_vertices[v1][i].m_vertex2 = v2])
         IN  IF it # 0 THEN m_vertices[v1][it].m_weight ELSE 0

\* mutant: the mirrored emplace_back of an undirected graph is missing
GraphAdjecencyList_Stored_NoMirror(vs, v1, v2, weight) ==
    IF weight = 0
    THEN vs
    ELSE IF GeSize(v1, size) \/ GeSize(v2, size)
    THEN vs
    ELSE [vs EXCEPT ![v1] = Append(@, Edge(v1, v2, weight))]

GraphAdjecencyList_Stored(vs, v1, v2, weight) ==
    IF weight = 0
    THEN vs
    ELSE IF GeSize(v1, size) \/ GeSize(v2, size)
    THEN vs
    ELSE LET vs1 == [vs EXCEPT ![v1] = Append(@, Edge(v1, v2, weight))]
         IN  IF ~m_isDirected
             THEN [vs1 EXCEPT ![v2] = Append(@, Edge(v2, v1, weight))]
             ELSE vs1

\* ------------------------------------------------------------------------
\* The Graph contract (virtual dispatch on the dynamic type)
\* ------------------------------------------------------------------------
GetEdges(v) ==
    CASE kind = "GraphEdgeList" -> GraphEdgeList_GetEdges(v)
      [] kind = "GraphAdjecencyMatrix" -> GraphAdjecencyMatrix_GetEdges(v)
      [] kind = "GraphAdjecencyList" -> GraphAdjecencyList_GetEdges(v)

GetEdge(v1, v2) ==
    CASE kind = "GraphEdgeList" -> GraphEdgeList_GetEdge(v1, v2)
      [] kind = "GraphAdjecencyMatrix" -> GraphAdjecencyMatrix_GetEdge(v1, v2)
      [] kind = "GraphAdjecencyList" -> GraphAdjecencyList_GetEdge(v1, v2)

NoCall == [op |-> "none", v1 |-> 0, v2 |-> 0, weight |-> 0]

\* the record of a SetEdge call: blank when the call has nothing to store, a
\* weight of 0 or, on a variant built for `size` vertices, a vertex outside
\* 0..size-1
SetEdgeCalled(v1, v2, weight) ==
    IF \/ weight = 0
       \/ kind # "GraphEdgeList" /\ ({v1, v2} \ (0..(size - 1)) # {})
    THEN [NoCall EXCEPT !.op = "SetEdge"]
    ELSE [op |-> "SetEdge", v1 |-> v1, v2 |-> v2, weight |-> weight]

GraphEdgeList_SetEdge(v1, v2, weight) ==
    /\ kind = "GraphEdgeList"
    /\ pc = "build"
    /\ m_edgeList' = GraphEdgeList_Stored(m_edgeList, v1, v2, weight)
    /\ last' = SetEdgeCalled(v1, v2, weight)
    /\ UNCHANGED <<kind, m_isDirected, size, m_matrix, m_vertices>>
    /\ UNCHANGED travVars
    /\ UNCHANGED treeVars
    /\ UNCHANGED <<nodeVars, concVars>>

GraphAdjecencyMatrix_SetEdge(v1, v2, weight) ==
    /\ kind = "GraphAdjecencyMatrix"
    /\ pc = "build"
    /\ m_matrix' = GraphAdjecencyMatrix_Stored(m_matrix, v1, v2, weight)
    /\ last' = SetEdgeCalled(v1, v2, weight)
    /\ UNCHANGED <<kind, m_isDirected, size, m_edgeList, m_vertices>>
    /\ UNCHANGED travVars
    /\ UNCHANGED treeVars
    /\ UNCHANGED <<nodeVars, concVars>>

GraphAdjecencyList_SetEdge(v1, v2, weight) ==
    /\ kind = "GraphAdjecencyList"
    /\ pc = "build"
    /\ m_vertices' = GraphAdjecencyList_Stored(m_vertices, v1, v2, weight)
    /\ last' = SetEdgeCalled(v1, v2, weight)
    /\ UNCHANGED <<kind, m_isDirected, size, m_edgeList, m_matrix>>
    /\ UNCHANGED travVars
    /\ UNCHANGED treeVars
    /\ UNCHANGED <<nodeVars, concVars>>

\* a call of the const method GetEdge, with any arguments: what it returns is
\* the operator GetEdge, the step itself only reads the graph
Call_GetEdge ==
    /\ pc = "build"
    /\ last' = [NoCall EXCEPT !.op = "GetEdge"]
    /\ UNCHANGED graphVars
    /\ UNCHANGED travVars
    /\ UNCHANGED treeVars
    /\ UNCHANGED <<nodeVars, concVars>>

\* a call of the const method GetEdges, with any argument: what it returns
\* is the operator GetEdges
Call_GetEdges ==
    /\ pc = "build"
    /\ last' = [NoCall EXCEPT !.op = "GetEdges"]
    /\ UNCHANGED graphVars
    /\ UNCHANGED travVars
    /\ UNCHANGED treeVars
    /\ UNCHANGED <<nodeVars, concVars>>

\* number of edges the graph stores, counted in SetEdge calls
RECURSIVE SumLen(_, _)
SumLen(vs, i) == IF i >= size THEN 0 ELSE Len(vs[i]) + SumLen(vs, i + 1)

StoredEdges ==
    CASE kind = "GraphEdgeList" -> Len(m_edgeList)
      [] kind = "GraphAdjecencyMatrix" ->
            Cardinality({p \in (0..(size - 1)) \X (0..(size - 1)) :
                            /\ m_matrix[p[1]][p[2]] # 0
                            /\ (m_isDirected \/ p[1] <= p[2])})
      [] kind = "GraphAdjecencyList" ->
            IF m_isDirected THEN SumLen(m_vertices, 0) ELSE SumLen(m_vertices, 0) \div 2

\* ------------------------------------------------------------------------
\* Specification of the storage variants: any sequence of SetEdge, GetEdge
\* and GetEdges calls, vertex arguments in and out of range (the edge list
\* has no range: its vertices are named 0..VertexCount-1)
\* ------------------------------------------------------------------------
VertexArgs == -1..VertexCount
Vertices == 0..(VertexCount - 1)

\* no tree: the graph specifications leave the tree variables alone
TreeIdle ==
    /\ treeRoot = 0
    /\ m_nodeData = [n \in 1..MaxNodes |-> 0]
    /\ m_parent = [n \in 1..MaxNodes |-> 0]
    /\ m_left = [n \in 1..MaxNodes |-> 0]
    /\ m_right = [n \in 1..MaxNodes |-> 0]
    /\ alloc = {}
    /\ content = [v \in 1..MaxValue |-> 0]
    /\ treeLast = [op |-> "none", data |-> 0, ret |-> 0]
    /\ ub = FALSE

TravIdle ==
    /\ alg = "none"
    /\ start = 0
    /\ stack = <<>>
    /\ queue = <<>>
    /\ visited = <<>>
    /\ out = <<>>
    /\ pc = "build"

\* no N-ary tree
NodeIdle ==
    /\ m_children = <<>>
    /\ Node_m_nodeData = <<>>
    /\ Node_m_parent = <<>>

\* no thread but the main thread
NoThread == -1

ConcIdle ==
    /\ threadMain = "none"
    /\ tpc = <<>>
    /\ joined = 0
    /\ g_counter = 0
    /\ reg = <<>>
    /\ increment = <<>>
    /\ g_mutex = NoThread
    /\ g_recursiveMutex = [owner |-> NoThread, count |-> 0]
    /\ g_sharedValueForCondition = 0
    /\ g_conditionVarMutex = NoThread
    /\ g_conditionVar = {}
    /\ SemaphoreCounter = 0

GraphNew(kinds, n) ==
    /\ kind \in kinds
    /\ m_isDirected \in BOOLEAN
    /\ size = n
    /\ m_edgeList = <<>>
    /\ m_matrix = GraphAdjecencyMatrix_New(n)
    /\ m_vertices = GraphAdjecencyList_New(n)
    /\ last = NoCall

Init ==
    /\ GraphNew(Kinds, VertexCount)
    /\ TravIdle
    /\ NodeIdle
    /\ ConcIdle
    /\ TreeIdle

Next ==
    \/ \E v1 \in Vertices, v2 \in Vertices, w \in Weights :
          /\ (w # 0 => StoredEdges < MaxEdges)
          /\ GraphEdgeList_SetEdge(v1, v2, w)
    \/ \E v1 \in VertexArgs, v2 \in VertexArgs, w \in Weights :
          /\ (w # 0 => StoredEdges < MaxEdges)
          /\ GraphAdjecencyMatrix_SetEdge(v1, v2, w)
    \/ \E v1 \in VertexArgs, v2 \in VertexArgs, w \in Weights :
          /\ (w # 0 => StoredEdges < MaxEdges)
          /\ GraphAdjecencyList_SetEdge(v1, v2, w)
    \/ Call_GetEdge
    \/ Call_GetEdges

Spec == Init /\ [][Next]_vars

\* ------------------------------------------------------------------------
\* Traversals
\* ------------------------------------------------------------------------
\* TraverseDepthFirst_Recursive(graph, v, visited): the visited vector when
\* the call returns.  Every printf of a vertex is followed by its push_back,
\* so the vertices printed by a call are the ones it appended, in order.
RECURSIVE TraverseDepthFirst_Recursive(_, _)
RECURSIVE RecursiveForEach(_, _, _)
TraverseDepthFirst_Recursive(v, vis) ==
    RecursiveForEach(GetEdges(v), 1, Append(vis, v))

\* the for_each over the edges of one call, from edge i on
RecursiveForEach(edges, i, vis) ==
    IF i > Len(edges)
    THEN vis
    ELSE RecursiveForEach(edges, i + 1,
            IF NotIn(vis, edges[i].m_vertex2)
            THEN TraverseDepthFirst_Recursive(edges[i].m_vertex2, vis)
            ELSE vis)

\* mutant: every neighbour is pushed, visited or not
RECURSIVE PushUnvisited_NoCheck(_, _, _, _)
PushUnvisited_NoCheck(edges, i, pending, vis) ==
    IF i > Len(edges)
    THEN <<pending, vis>>
    ELSE PushUnvisited_NoCheck(edges, i + 1, Append(pending, edges[i].m_vertex2),
                               Append(vis, edges[i].m_vertex2))

\* the for_each of the two loops: [pending, visited] after the edges from i on;
\* pending is the stack or the queue (push appends in both)
RECURSIVE PushUnvisited(_, _, _, _)
PushUnvisited(edges, i, pending, vis) ==
    IF i > Len(edges)
    THEN <<pending, vis>>
    ELSE IF NotIn(vis, edges[i].m_vertex2)
    THEN PushUnvisited(edges, i + 1, Append(pending, edges[i].m_vertex2),
                       Append(vis, edges[i].m_vertex2))
    ELSE PushUnvisited(edges, i + 1, pending, vis)

Call_TraverseDepthFirst_Recursive(v) ==
    /\ pc = "build"
    /\ alg' = "DFS_R"
    /\ start' = v
    /\ visited' = TraverseDepthFirst_Recursive(v, <<>>)
    /\ out' = visited'
    /\ pc' = "done"
    /\ UNCHANGED <<stack, queue, last>>
    /\ UNCHANGED graphVars
    /\ UNCHANGED treeVars
    /\ UNCHANGED <<nodeVars, concVars>>

\* mutant: the start vertex is pushed but not marked as visited
TraverseDepthFirst_NonRecursive_Begin_NotMarked(v) ==
    /\ pc = "build"
    /\ alg' = "DFS_NR"
    /\ start' = v
    /\ stack' = <<v>>
    /\ visited' = <<>>
    /\ out' = <<>>
    /\ pc' = "loop"
    /\ UNCHANGED <<queue, last>>
    /\ UNCHANGED graphVars
    /\ UNCHANGED treeVars
    /\ UNCHANGED <<nodeVars, concVars>>

\* lines 453-457: the stack and the visited vector seeded with v
TraverseDepthFirst_NonRecursive_Begin(v) ==
    /\ pc = "build"
    /\ alg' = "DFS_NR"
    /\ start' = v
    /\ stack' = <<v>>
    /\ visited' = <<v>>
    /\ out' = <<>>
    /\ pc' = "loop"
    /\ UNCHANGED <<queue, last>>
    /\ UNCHANGED graphVars
    /\ UNCHANGED treeVars
    /\ UNCHANGED <<nodeVars, concVars>>

\* one iteration of the while loop, lines 459-476
TraverseDepthFirst_NonRecursive_Loop ==
    /\ pc = "loop"
    /\ alg = "DFS_NR"
    /\ stack # <<>>
    /\ LET vertex == stack[Len(stack)]
           popped == SubSeq(stack, 1, Len(stack) - 1)
           r == PushUnvisited(Reverse(GetEdges(vertex)), 1, popped, visited)
       IN  /\ out' = Append(out, vertex)
           /\ stack' = r[1]
           /\ visited' = r[2]
           /\ pc' = IF r[1] = <<>> THEN "done" ELSE "loop"
    /\ UNCHANGED <<alg, start, queue, last>>
    /\ UNCHANGED graphVars
    /\ UNCHANGED treeVars
    /\ UNCHANGED <<nodeVars, concVars>>

\* lines 481-485
TraverseBreathFirst_NonRecursive_Begin(v) ==
    /\ pc = "build"
    /\ alg' = "BFS_NR"
    /\ start' = v
    /\ queue' = <<v>>
    /\ visited' = <<v>>
    /\ out' = <<>>
    /\ pc' = "loop"
    /\ UNCHANGED <<stack, last>>
    /\ UNCHANGED graphVars
    /\ UNCHANGED treeVars
    /\ UNCHANGED <<nodeVars, concVars>>

\* mutant: the vertex is taken from the back of the queue
TraverseBreathFirst_NonRecursive_Loop_TakesBack ==
    /\ pc = "loop"
    /\ alg = "BFS_NR"
    /\ queue # <<>>
    /\ LET vertex == queue[Len(queue)]
           r == PushUnvisited(GetEdges(vertex), 1,
                              SubSeq(queue, 1, Len(queue) - 1), visited)
       IN  /\ out' = Append(out, vertex)
           /\ queue' = r[1]
           /\ visited' = r[2]
           /\ pc' = IF r[1] = <<>> THEN "done" ELSE "loop"
    /\ UNCHANGED <<alg, start, stack, last>>
    /\ UNCHANGED graphVars
    /\ UNCHANGED treeVars
    /\ UNCHANGED <<nodeVars, concVars>>

\* mutant: the neighbours are put in front of the queue
TraverseBreathFirst_NonRecursive_Loop_PushesFront ==
    /\ pc = "loop"
    /\ alg = "BFS_NR"
    /\ queue # <<>>
    /\ LET vertex == Head(queue)
           r == PushUnvisited(GetEdges(vertex), 1, <<>>, visited)
       IN  /\ out' = Append(out, vertex)
           /\ queue' = r[1] \o Tail(queue)
           /\ visited' = r[2]
           /\ pc' = IF queue' = <<>> THEN "done" ELSE "loop"
    /\ UNCHANGED <<alg, start, stack, last>>
    /\ UNCHANGED graphVars
    /\ UNCHANGED treeVars
    /\ UNCHANGED <<nodeVars, concVars>>

\* one iteration of the while loop, lines 487-503
TraverseBreathFirst_NonRecursive_Loop ==
    /\ pc = "loop"
    /\ alg = "BFS_NR"
    /\ queue # <<>>
    /\ LET vertex == Head(queue)
           r == PushUnvisited(GetEdges(vertex), 1, Tail(queue), visited)
       IN  /\ out' = Append(out, vertex)
           /\ queue' = r[1]
           /\ visited' = r[2]
           /\ pc' = IF r[1] = <<>> THEN "done" ELSE "loop"
    /\ UNCHANGED <<alg, start, stack, last>>
    /\ UNCHANGED graphVars
    /\ UNCHANGED treeVars
    /\ UNCHANGED <<nodeVars, concVars>>

\* ------------------------------------------------------------------------
\* Specification of the traversals: a graph of any variant built by SetEdge
\* calls, then one traversal from any start vertex, in or out of range
\* ------------------------------------------------------------------------
TravVertices == 0..(TravVertexCount - 1)
TravStarts == -1..TravVertexCount

InitTraverse ==
    /\ GraphNew(Kinds, TravVertexCount)
    /\ TravIdle
    /\ NodeIdle
    /\ ConcIdle
    /\ TreeIdle

NextTraverse ==
    \/ \E v1 \in TravVertices, v2 \in TravVertices :
          /\ StoredEdges < TravMaxEdges
          /\ GraphEdgeList_SetEdge(v1, v2, 1)
    \/ \E v1 \in TravVertices, v2 \in TravVertices :
          /\ StoredEdges < TravMaxEdges
          /\ GraphAdjecencyMatrix_SetEdge(v1, v2, 1)
    \/ \E v1 \in TravVertices, v2 \in TravVertices :
          /\ StoredEdges < TravMaxEdges
          /\ GraphAdjecencyList_SetEdge(v1, v2, 1)
    \/ \E v \in TravStarts : Call_TraverseDepthFirst_Recursive(v)
    \/ \E v \in TravStarts : TraverseDepthFirst_NonRecursive_Begin(v)
    \/ TraverseDepthFirst_NonRecursive_Loop
    \/ \E v \in TravStarts : TraverseBreathFirst_NonRecursive_Begin(v)
    \/ TraverseBreathFirst_NonRecursive_Loop

SpecTraverse == InitTraverse /\ [][NextTraverse]_vars

\* the same, with the loops running on: a while loop whose condition holds
\* takes its next iteration (the calls are synchronous, nothing suspends them)
SpecTraverseFair ==
    /\ SpecTraverse
    /\ WF_vars(TraverseDepthFirst_NonRecursive_Loop)
    /\ WF_vars(TraverseBreathFirst_NonRecursive_Loop)

\* ------------------------------------------------------------------------
\* Specification of the three variants side by side: a GraphEdgeList, a
\* GraphAdjecencyMatrix and a GraphAdjecencyList constructed with the same
\* isDirected are given the same SetEdge calls, as GraphsAsEdgeList,
\* GraphsAsAdjacencyMatrix and GraphsAsAdjacencyList do.  m_edgeList,
\* m_matrix and m_vertices are the storage of the three objects.
\* ------------------------------------------------------------------------
\* the same call graph.SetEdge(v1, v2, weight) made on each of the three
Each_SetEdge(v1, v2, weight) ==
    /\ pc = "build"
    /\ m_edgeList' = GraphEdgeList_Stored(m_edgeList, v1, v2, weight)
    /\ m_matrix' = GraphAdjecencyMatrix_Stored(m_matrix, v1, v2, weight)
    /\ m_vertices' = GraphAdjecencyList_Stored(m_vertices, v1, v2, weight)
    /\ last' = [op |-> "SetEdge", v1 |-> v1, v2 |-> v2, weight |-> weight]
    /\ UNCHANGED <<kind, m_isDirected, size>>
    /\ UNCHANGED travVars
    /\ UNCHANGED treeVars
    /\ UNCHANGED <<nodeVars, concVars>>

InitVariants ==
    /\ GraphNew({"GraphEdgeList"}, TravVertexCount)
    /\ TravIdle
    /\ NodeIdle
    /\ ConcIdle
    /\ TreeIdle

NextVariants ==
    \/ \E v1 \in TravVertices, v2 \in TravVertices, w \in Weights \ {0} :
          /\ Len(m_edgeList) < TravMaxEdges
          /\ Each_SetEdge(v1, v2, w)
    \/ Call_GetEdge
    \/ Call_GetEdges

SpecVariants == InitVariants /\ [][NextVariants]_vars

\* ------------------------------------------------------------------------
\* Specification of the two depth-first traversals on larger graphs, of the
\* variant GraphsTraverse uses (GraphAdjecencyList)
\* ------------------------------------------------------------------------
DfsVertices == 0..(DfsVertexCount - 1)

InitDfs ==
    /\ GraphNew({"GraphAdjecencyList"}, DfsVertexCount)
    /\ TravIdle
    /\ NodeIdle
    /\ ConcIdle
    /\ TreeIdle

NextDfs ==
    \/ \E v1 \in DfsVertices, v2 \in DfsVertices :
          /\ StoredEdges < DfsMaxEdges
          /\ GraphAdjecencyList_SetEdge(v1, v2, 1)
    \/ \E v \in DfsVertices : Call_TraverseDepthFirst_Recursive(v)
    \/ \E v \in DfsVertices : TraverseDepthFirst_NonRecursive_Begin(v)
    \/ TraverseDepthFirst_NonRecursive_Loop

SpecDfs == InitDfs /\ [][NextDfs]_vars

\* ------------------------------------------------------------------------
\* Specification of the breadth-first traversal on the directed graphs of
\* every variant, started from any vertex of the graph
\* ------------------------------------------------------------------------
BfsVertices == 0..(BfsVertexCount - 1)

InitBfs ==
    /\ GraphNew(Kinds, BfsVertexCount)
    /\ m_isDirected
    /\ TravIdle
    /\ NodeIdle
    /\ ConcIdle
    /\ TreeIdle

NextBfs ==
    \/ \E v1 \in BfsVertices, v2 \in BfsVertices :
          /\ StoredEdges < BfsMaxEdges
          /\ GraphEdgeList_SetEdge(v1, v2, 1)
    \/ \E v1 \in BfsVertices, v2 \in BfsVertices :
          /\ StoredEdges < BfsMaxEdges
          /\ GraphAdjecencyMatrix_SetEdge(v1, v2, 1)
    \/ \E v1 \in BfsVertices, v2 \in BfsVertices :
          /\ StoredEdges < BfsMaxEdges
          /\ GraphAdjecencyList_SetEdge(v1, v2, 1)
    \/ \E v \in BfsVertices : TraverseBreathFirst_NonRecursive_Begin(v)
    \/ TraverseBreathFirst_NonRecursive_Loop

SpecBfs == InitBfs /\ [][NextBfs]_vars

\* ------------------------------------------------------------------------
\* Specification of the graph that GraphsAsEdgeList, GraphsAsAdjacencyMatrix,
\* GraphsAsAdjacencyList and GraphsTraverse build: the same nine SetEdge
\* calls in the same order on a graph of any variant, and a traversal
\* started from any vertex after any number of them
\* ------------------------------------------------------------------------
\* const int graphVertexCount = 6
graphVertexCount == 6

\* the SetEdge calls, in the order of the source
GraphsEdges ==
    << <<0, 1, 7>>, <<1, 3, 5>>, <<2, 0, 2>>, <<2, 1, 1>>, <<2, 4, 6>>,
       <<3, 5, 7>>, <<4, 1, 3>>, <<4, 3, 9>>, <<4, 5, 4>> >>

GraphsVertices == 0..(graphVertexCount - 1)

\* the arguments of the next SetEdge call of the source
GraphsNextEdge == GraphsEdges[StoredEdges + 1]

InitGraphs ==
    /\ GraphNew(Kinds, graphVertexCount)
    /\ TravIdle
    /\ NodeIdle
    /\ ConcIdle
    /\ TreeIdle

NextGraphs ==
    \/ /\ StoredEdges < Len(GraphsEdges)
       /\ GraphEdgeList_SetEdge(GraphsNextEdge[1], GraphsNextEdge[2], GraphsNextEdge[3])
    \/ /\ StoredEdges < Len(GraphsEdges)
       /\ GraphAdjecencyMatrix_SetEdge(GraphsNextEdge[1], GraphsNextEdge[2], GraphsNextEdge[3])
    \/ /\ StoredEdges < Len(GraphsEdges)
       /\ GraphAdjecencyList_SetEdge(GraphsNextEdge[1], GraphsNextEdge[2], GraphsNextEdge[3])
    \/ \E v \in GraphsVertices : Call_TraverseDepthFirst_Recursive(v)
    \/ \E v \in GraphsVertices : TraverseDepthFirst_NonRecursive_Begin(v)
    \/ TraverseDepthFirst_NonRecursive_Loop
    \/ \E v \in GraphsVertices : TraverseBreathFirst_NonRecursive_Begin(v)
    \/ TraverseBreathFirst_NonRecursive_Loop

SpecGraphs == InitGraphs /\ [][NextGraphs]_vars

\* ------------------------------------------------------------------------
\* Binary search tree (NodeBST)
\*
\* The heap is a record of the five maps: d (m_nodeData), p (m_parent),
\* l (m_left), r (m_right), a (the live addresses).  A call that reads or
\* deletes through an address that is not live has undefined behaviour:
\* the operators report it (ub) and the model stops there.  `new` may hand
\* out any address that is not live, a freed one included.
\* ------------------------------------------------------------------------
Null == 0
NodeIds == 1..MaxNodes
Values == 1..MaxValue

Heap == [d |-> m_nodeData, p |-> m_parent, l |-> m_left, r |-> m_right, a |-> alloc]

\* mutant: the new node is not told its parent
NodeBST_New_NoParent(H, n, data, parent) ==
    [d |-> [H.d EXCEPT ![n] = data],
     p |-> [H.p EXCEPT ![n] = Null],
     l |-> [H.l EXCEPT ![n] = Null],
     r |-> [H.r EXCEPT ![n] = Null],
     a |-> H.a \cup {n}]

\* NodeBST(data, parent) constructed at address n
NodeBST_New(H, n, data, parent) ==
    [d |-> [H.d EXCEPT ![n] = data],
     p |-> [H.p EXCEPT ![n] = parent],
     l |-> [H.l EXCEPT ![n] = Null],
     r |-> [H.r EXCEPT ![n] = Null],
     a |-> H.a \cup {n}]

\* ~NodeBST run by `delete n`: delete m_left; delete m_right; then the node
\* itself goes.  gone: the addresses released so far.
RECURSIVE NodeBST_Destroy(_, _, _)
NodeBST_Destroy(H, n, gone) ==
    IF n = Null
    THEN [ub |-> FALSE, gone |-> gone]
    ELSE IF n \notin H.a \/ n \in gone
    THEN [ub |-> TRUE, gone |-> gone]
    ELSE LET dl == NodeBST_Destroy(H, H.l[n], gone \cup {n})
         IN  IF dl.ub THEN dl ELSE NodeBST_Destroy(H, H.r[n], dl.gone)

\* mutant: `delete n` is missing, the node stays allocated
NodeBST_Delete_This_Leaks(H, n) == [ub |-> FALSE, H |-> H]

\* the heap after `delete n`
NodeBST_Delete_This(H, n) ==
    LET dd == NodeBST_Destroy(H, n, {})
    IN  [ub |-> dd.ub,
         H |-> [d |-> [x \in DOMAIN H.d |-> IF x \in dd.gone THEN 0 ELSE H.d[x]],
                p |-> [x \in DOMAIN H.p |-> IF x \in dd.gone THEN Null ELSE H.p[x]],
                l |-> [x \in DOMAIN H.l |-> IF x \in dd.gone THEN Null ELSE H.l[x]],
                r |-> [x \in DOMAIN H.r |-> IF x \in dd.gone THEN Null ELSE H.r[x]],
                a |-> H.a \ dd.gone]]

\* mutant: ties go right
NodeBST_GoesRight_TiesRight(data, nodeData) == data >= nodeData

\* Insert, line 223: the comparison that sends data to the right
NodeBST_GoesRight(data, nodeData) == data > nodeData

\* NodeBST::Insert, the descent: the node that gets the new child, and on
\* which side
RECURSIVE NodeBST_InsertAt(_, _, _)
NodeBST_InsertAt(H, n, data) ==
    IF n \notin H.a
    THEN [ub |-> TRUE, node |-> n, right |-> FALSE]
    ELSE IF NodeBST_GoesRight(data, H.d[n])
    THEN IF H.r[n] # Null
         THEN NodeBST_InsertAt(H, H.r[n], data)
         ELSE [ub |-> FALSE, node |-> n, right |-> TRUE]
    ELSE IF H.l[n] # Null
         THEN NodeBST_InsertAt(H, H.l[n], data)
         ELSE [ub |-> FALSE, node |-> n, right |-> FALSE]

\* mutant: no test for data < m_nodeData, the node is taken for a match
RECURSIVE NodeBST_Find_NoLess(_, _, _)
NodeBST_Find_NoLess(H, n, data) ==
    IF n \notin H.a
    THEN [ub |-> TRUE, node |-> Null]
    ELSE IF data > H.d[n]
    THEN IF H.r[n] # Null THEN NodeBST_Find_NoLess(H, H.r[n], data)
                          ELSE [ub |-> FALSE, node |-> Null]
    ELSE [ub |-> FALSE, node |-> n]

\* NodeBST::Find called on node n (Delete descends the same way)
RECURSIVE NodeBST_Find(_, _, _)
NodeBST_Find(H, n, data) ==
    IF n \notin H.a
    THEN [ub |-> TRUE, node |-> Null]
    ELSE IF data > H.d[n]
    THEN IF H.r[n] # Null THEN NodeBST_Find(H, H.r[n], data)
                          ELSE [ub |-> FALSE, node |-> Null]
    ELSE IF data < H.d[n]
    THEN IF H.l[n] # Null THEN NodeBST_Find(H, H.l[n], data)
                          ELSE [ub |-> FALSE, node |-> Null]
    ELSE [ub |-> FALSE, node |-> n]

\* mutant: the left child is taken for the maximum, no right link is followed
NodeBST_MaxIn_NoWalk(H, n) == [ub |-> n \notin H.a, node |-> n]

\* Delete, lines 356-360: the rightmost node below m_left
RECURSIVE NodeBST_MaxIn(_, _)
NodeBST_MaxIn(H, n) ==
    IF n \notin H.a
    THEN [ub |-> TRUE, node |-> n]
    ELSE IF H.r[n] # Null
    THEN NodeBST_MaxIn(H, H.r[n])
    ELSE [ub |-> FALSE, node |-> n]

Undefined(H) == [ub |-> TRUE, H |-> H, ret |-> Null]

\* mutant: the parent's left link is the one rewritten, whichever side the
\* node hangs from
NodeBST_Unlink_AlwaysLeft(H, n, child) ==
    LET parent == H.p[n]
    IN  IF parent = Null
        THEN LET del == NodeBST_Delete_This(H, n)
             IN  [ub |-> del.ub, H |-> del.H, ret |-> child]
        ELSE IF parent \notin H.a
        THEN [ub |-> TRUE, H |-> H, ret |-> Null]
        ELSE LET H1 == [H EXCEPT !.l[parent] = child]
                 del == NodeBST_Delete_This(H1, n)
             IN  [ub |-> del.ub, H |-> del.H, ret |-> parent]

\* mutant: the child put in the node's place is returned, not the parent
NodeBST_Unlink_ReturnsChild(H, n, child) ==
    LET parent == H.p[n]
    IN  IF parent = Null
        THEN LET del == NodeBST_Delete_This(H, n)
             IN  [ub |-> del.ub, H |-> del.H, ret |-> child]
        ELSE IF parent \notin H.a
        THEN [ub |-> TRUE, H |-> H, ret |-> Null]
        ELSE LET H1 == IF n = H.l[parent]
                       THEN [H EXCEPT !.l[parent] = child]
                       ELSE [H EXCEPT !.r[parent] = child]
                 del == NodeBST_Delete_This(H1, n)
             IN  [ub |-> del.ub, H |-> del.H, ret |-> child]

\* Delete, cases 1 and 2 share their shape: the parent's link to n is set
\* to child (nullptr for a leaf), n is deleted, the parent is returned; a
\* root is deleted and child is returned
NodeBST_Unlink(H, n, child) ==
    LET parent == H.p[n]
    IN  IF parent = Null
        THEN LET del == NodeBST_Delete_This(H, n)
             IN  [ub |-> del.ub, H |-> del.H, ret |-> child]
        ELSE IF parent \notin H.a
        THEN Undefined(H)
        ELSE LET H1 == IF n = H.l[parent]
                       THEN [H EXCEPT !.l[parent] = child]
                       ELSE [H EXCEPT !.r[parent] = child]
                 del == NodeBST_Delete_This(H1, n)
             IN  [ub |-> del.ub, H |-> del.H, ret |-> parent]

\* what a Delete call reports: the result of the branch taken, and which of
\* the three cases of the source it was (0: none, the behaviour is undefined)
Resolved(r, case) == [ub |-> r.ub, H |-> r.H, ret |-> r.ret, case |-> case]

RECURSIVE NodeBST_Delete(_, _, _)

\* mutant: case 3 deletes the predecessor without taking its value first
NodeBST_Delete_Here_NoCopy(H, n) ==
    IF n \notin H.a
    THEN Resolved(Undefined(H), 0)
    ELSE IF H.l[n] = Null /\ H.r[n] = Null
    THEN Resolved(NodeBST_Unlink(H, n, Null), 1)
    ELSE IF H.r[n] = Null
    THEN Resolved(NodeBST_Unlink(H, n, H.l[n]), 2)
    ELSE IF H.l[n] = Null
    THEN Resolved(NodeBST_Unlink(H, n, H.r[n]), 2)
    ELSE LET max == NodeBST_MaxIn(H, H.l[n])
         IN  IF max.ub
             THEN Resolved(Undefined(H), 0)
             ELSE LET del == NodeBST_Delete(H, max.node, H.d[max.node])
                  IN  IF del.ub \/ n \notin del.H.a
                      THEN Resolved(Undefined(del.H), 0)
                      ELSE [ub |-> FALSE, H |-> del.H,
                            ret |-> IF del.H.p[n] = Null THEN n ELSE del.H.p[n],
                            case |-> 3]

\* NodeBST::Delete called on the node n that holds the value (the else
\* branch, lines 283-373)
NodeBST_Delete_Here(H, n) ==
    IF n \notin H.a
    THEN Resolved(Undefined(H), 0)
    ELSE IF H.l[n] = Null /\ H.r[n] = Null
    THEN Resolved(NodeBST_Unlink(H, n, Null), 1)
    ELSE IF H.r[n] = Null
    THEN Resolved(NodeBST_Unlink(H, n, H.l[n]), 2)
    ELSE IF H.l[n] = Null
    THEN Resolved(NodeBST_Unlink(H, n, H.r[n]), 2)
    ELSE LET max == NodeBST_MaxIn(H, H.l[n])
         IN  IF max.ub
             THEN Resolved(Undefined(H), 0)
             ELSE LET H1 == [H EXCEPT !.d[n] = H.d[max.node]]
                      del == NodeBST_Delete(H1, max.node, H1.d[n])
                  IN  IF del.ub \/ n \notin del.H.a
                      THEN Resolved(Undefined(del.H), 0)
                      ELSE [ub |-> FALSE, H |-> del.H,
                            ret |-> IF del.H.p[n] = Null THEN n ELSE del.H.p[n],
                            case |-> 3]

\* NodeBST::Delete called on node n: the descent of lines 271-282, then the
\* else branch on the node that holds data (found)
NodeBST_Delete(H, n, data) ==
    LET f == NodeBST_Find(H, n, data)
    IN  IF f.ub
        THEN [ub |-> TRUE, H |-> H, ret |-> Null, found |-> Null, case |-> 0]
        ELSE IF f.node = Null
        THEN [ub |-> FALSE, H |-> H, ret |-> Null, found |-> Null, case |-> 0]
        ELSE LET del == NodeBST_Delete_Here(H, f.node)
             IN  [ub |-> del.ub, H |-> del.H, ret |-> del.ret, found |-> f.node,
                  case |-> del.case]

\* TraverseInOrder(const NodeBST*): the values printed, in order
RECURSIVE TraverseInOrder(_)
TraverseInOrder(n) ==
    IF n = Null
    THEN <<>>
    ELSE (IF m_left[n] # Null THEN TraverseInOrder(m_left[n]) ELSE <<>>)
            \o <<m_nodeData[n]>>
            \o (IF m_right[n] # Null THEN TraverseInOrder(m_right[n]) ELSE <<>>)

\* the addresses `new` may return.  Addresses that nothing points to are
\* interchangeable, so one of them stands for all; every address that is
\* free but still pointed to (a dangling pointer) is a candidate of its own.
Referenced ==
    {treeRoot, treeLast.ret}
        \cup {m_parent[x] : x \in alloc}
        \cup {m_left[x] : x \in alloc}
        \cup {m_right[x] : x \in alloc}

NewAddresses ==
    LET free == (DOMAIN m_nodeData) \ alloc
        fresh == free \ Referenced
    IN  (free \cap Referenced)
            \cup {n \in fresh : \A x \in fresh : n <= x}

\* values the tree is expected to hold, counted
RECURSIVE ContentSize(_)
ContentSize(v) == IF v > MaxValue THEN 0 ELSE content[v] + ContentSize(v + 1)

SetHeap(H) ==
    /\ m_nodeData' = H.d
    /\ m_parent' = H.p
    /\ m_left' = H.l
    /\ m_right' = H.r
    /\ alloc' = H.a

\* `NodeBST* treeRoot = new NodeBST(data)`, line 445
Tree_New(data) ==
    /\ ~ub
    /\ treeRoot = Null
    /\ \E n \in NewAddresses :
          /\ SetHeap(NodeBST_New(Heap, n, data, Null))
          /\ treeRoot' = n
          /\ treeLast' = [op |-> "New", data |-> data, ret |-> n]
    /\ content' = [content EXCEPT ![data] = @ + 1]
    /\ UNCHANGED ub
    /\ UNCHANGED graphVars
    /\ UNCHANGED <<last, alg, start, stack, queue, visited, out, pc>>
    /\ UNCHANGED <<nodeVars, concVars>>

\* treeRoot->Insert(data)
Tree_Insert(data) ==
    /\ ~ub
    /\ treeRoot # Null
    /\ LET at == NodeBST_InsertAt(Heap, treeRoot, data)
       IN  IF at.ub
           THEN /\ ub' = TRUE
                /\ treeLast' = [op |-> "Insert", data |-> data, ret |-> Null]
                /\ UNCHANGED <<treeRoot, m_nodeData, m_parent, m_left, m_right,
                               alloc, content>>
           ELSE \E n \in NewAddresses :
                   LET H1 == NodeBST_New(Heap, n, data, at.node)
                   IN  /\ SetHeap(IF at.right
                                  THEN [H1 EXCEPT !.r[at.node] = n]
                                  ELSE [H1 EXCEPT !.l[at.node] = n])
                       /\ treeLast' = [op |-> "Insert", data |-> data, ret |-> n]
                       /\ content' = [content EXCEPT ![data] = @ + 1]
                       /\ UNCHANGED <<treeRoot, ub>>
    /\ UNCHANGED graphVars
    /\ UNCHANGED <<last, alg, start, stack, queue, visited, out, pc>>
    /\ UNCHANGED <<nodeVars, concVars>>

\* treeRoot->Find(data)
Tree_Find(data) ==
    /\ ~ub
    /\ treeRoot # Null
    /\ LET f == NodeBST_Find(Heap, treeRoot, data)
       IN  /\ ub' = f.ub
           /\ treeLast' = [op |-> "Find", data |-> data, ret |-> f.node]
    /\ UNCHANGED <<treeRoot, m_nodeData, m_parent, m_left, m_right, alloc, content>>
    /\ UNCHANGED graphVars
    /\ UNCHANGED <<last, alg, start, stack, queue, visited, out, pc>>
    /\ UNCHANGED <<nodeVars, concVars>>

\* treeRoot->Delete(data); the caller reseats its handle to what Delete
\* returned when the node removed was the root
Tree_Delete(data) ==
    /\ ~ub
    /\ treeRoot # Null
    /\ LET del == NodeBST_Delete(Heap, treeRoot, data)
       IN  /\ ub' = del.ub
           /\ SetHeap(del.H)
           /\ treeLast' = [op |-> "Delete", data |-> data, ret |-> del.ret]
           /\ treeRoot' = IF ~del.ub /\ del.found = treeRoot THEN del.ret ELSE treeRoot
           /\ content' = IF ~del.ub /\ del.found # Null
                         THEN [content EXCEPT ![data] = @ - 1]
                         ELSE content
    /\ UNCHANGED graphVars
    /\ UNCHANGED <<last, alg, start, stack, queue, visited, out, pc>>
    /\ UNCHANGED <<nodeVars, concVars>>

\* ------------------------------------------------------------------------
\* Specifications of the tree: a root, then Insert and Find calls; and the
\* same with Delete calls
\* ------------------------------------------------------------------------
GraphIdle ==
    /\ kind = "GraphEdgeList"
    /\ m_isDirected = TRUE
    /\ size = 0
    /\ m_edgeList = <<>>
    /\ m_matrix = GraphAdjecencyMatrix_New(0)
    /\ m_vertices = GraphAdjecencyList_New(0)
    /\ last = NoCall

InitTree ==
    /\ GraphIdle
    /\ TravIdle
    /\ NodeIdle
    /\ ConcIdle
    /\ TreeIdle

NextInsert ==
    \/ \E data \in Values : Tree_New(data)
    \/ \E data \in Values : ContentSize(1) < MaxNodes /\ Tree_Insert(data)
    \/ \E data \in Values : Tree_Find(data)

SpecInsert == InitTree /\ [][NextInsert]_vars

NextTree ==
    \/ \E data \in Values : Tree_New(data)
    \/ \E data \in Values : ContentSize(1) < MaxNodes /\ Tree_Insert(data)
    \/ \E data \in Values : Tree_Find(data)
    \/ \E data \in Values : Tree_Delete(data)

SpecTree == InitTree /\ [][NextTree]_vars

\* ------------------------------------------------------------------------
\* Specification of the tree that BinarySearchTree builds: new NodeBST(30)
\* and the six Insert calls that follow, in the order of the source, with a
\* Delete of any of the values after any number of them
\* ------------------------------------------------------------------------
\* the root's value and the values inserted, lines 445-454
BinarySearchTreeValues == <<30, 23, 35, 11, 25, 31, 42>>

\* how many of the values the tree holds
BinarySearchTreeHeld ==
    Cardinality({i \in 1..Len(BinarySearchTreeValues) :
                    content[BinarySearchTreeValues[i]] > 0})

\* the tree holds the first values of the source and no other: the next
\* call of the source is the one that puts the next value in
BinarySearchTreeInOrder ==
    \A i \in 1..BinarySearchTreeHeld : content[BinarySearchTreeValues[i]] = 1

InitBinarySearchTree ==
    /\ GraphIdle
    /\ TravIdle
    /\ NodeIdle
    /\ ConcIdle
    /\ treeRoot = Null
    /\ m_nodeData = [n \in 1..Len(BinarySearchTreeValues) |-> 0]
    /\ m_parent = [n \in 1..Len(BinarySearchTreeValues) |-> Null]
    /\ m_left = [n \in 1..Len(BinarySearchTreeValues) |-> Null]
    /\ m_right = [n \in 1..Len(BinarySearchTreeValues) |-> Null]
    /\ alloc = {}
    /\ content = [v \in Range(BinarySearchTreeValues) |-> 0]
    /\ treeLast = [op |-> "none", data |-> 0, ret |-> 0]
    /\ ub = FALSE

NextBinarySearchTree ==
    \/ /\ BinarySearchTreeHeld = 0
       /\ Tree_New(BinarySearchTreeValues[1])
    \/ /\ BinarySearchTreeHeld \in 1..(Len(BinarySearchTreeValues) - 1)
       /\ BinarySearchTreeInOrder
       /\ Tree_Insert(BinarySearchTreeValues[BinarySearchTreeHeld + 1])
    \/ \E data \in Range(BinarySearchTreeValues) : Tree_Delete(data)

SpecBinarySearchTree == InitBinarySearchTree /\ [][NextBinarySearchTree]_vars

\* the addresses reached from the set S along m_left and m_right (the links
\* of a freed node are not followed)
RECURSIVE Below(_)
Below(S) ==
    LET T == (S \cup {m_left[x] : x \in S \cap alloc}
                \cup {m_right[x] : x \in S \cap alloc}) \ {Null}
    IN  IF T = S THEN S ELSE Below(T)

Subtree(n) == IF n = Null THEN {} ELSE Below({n})

TreeNodes == Subtree(treeRoot)

\* the children of node n
Children(n) == {m_left[n], m_right[n]} \ {Null}

\* the tree is as a caller expects it: a root without parent, every node
\* reached from it alive and linked back to the one node it hangs from, no
\* other node alive
SoundTree ==
    /\ ~ub
    /\ treeRoot # Null
    /\ TreeNodes = alloc
    /\ m_parent[treeRoot] = Null
    /\ \A c \in alloc \ {treeRoot} :
          /\ m_parent[c] \in alloc
          /\ c \in Children(m_parent[c])
    /\ \A x \in alloc : m_left[x] = Null \/ m_left[x] # m_right[x]

\* the calls made on a tree while it is sound (or before there is one): the
\* state a call leaves is reached whatever it is, and nothing is called on
\* a tree that a Delete has left with a link to a freed node
NextSound ==
    \/ \E data \in Values : treeRoot = Null /\ Tree_New(data)
    \/ \E data \in Values :
          SoundTree /\ ContentSize(1) < MaxNodes /\ Tree_Insert(data)
    \/ \E data \in Values : SoundTree /\ Tree_Find(data)
    \/ \E data \in Values : SoundTree /\ Tree_Delete(data)

SpecSound == InitTree /\ [][NextSound]_vars

\* ------------------------------------------------------------------------
\* Specification of the end of BinarySearchTree (lines 468-478) on any tree:
\* a tree is built by Insert calls; a value that the tree does not hold is
\* inserted and the Delete of that value is the next call
\* ------------------------------------------------------------------------
NextRoundTrip ==
    \/ \E data \in Values : Tree_New(data)
    \/ \E data \in Values : ContentSize(1) < MaxNodes /\ Tree_Insert(data)
    \/ \E data \in Values :
          /\ treeLast.op = "Insert"
          /\ treeLast.data = data
          /\ content[data] = 1
          /\ Tree_Delete(data)

SpecRoundTrip == InitTree /\ [][NextRoundTrip]_vars

\* ------------------------------------------------------------------------
\* N-ary tree (Node)
\*
\* The Node constructed k-th has address k: m_children, Node_m_nodeData and
\* Node_m_parent are sequences indexed by address, the root is the first.
\* The traversals share stack, out and pc with the graph traversals (the
\* locals of the source have the same names).
\* ------------------------------------------------------------------------
\* the caller's treeRoot in Trees(): the first Node constructed
NodeRoot == 1

\* `Node* treeRoot = new Node(data)`, line 127
Node_New(data) ==
    /\ pc = "build"
    /\ m_children = <<>>
    /\ m_children' = << <<>> >>
    /\ Node_m_nodeData' = <<data>>
    /\ Node_m_parent' = <<Null>>
    /\ UNCHANGED <<last, alg, start, stack, queue, visited, out, pc>>
    /\ UNCHANGED <<graphVars, treeVars, concVars>>

\* node->AddChild(childData)
Node_AddChild(node, childData) ==
    /\ pc = "build"
    /\ node \in 1..Len(m_children)
    /\ LET child == Len(m_children) + 1
       IN  /\ m_children' = Append([m_children EXCEPT ![node] = Append(@, child)], <<>>)
           /\ Node_m_nodeData' = Append(Node_m_nodeData, childData)
           /\ Node_m_parent' = Append(Node_m_parent, node)
    /\ UNCHANGED <<last, alg, start, stack, queue, visited, out, pc>>
    /\ UNCHANGED <<graphVars, treeVars, concVars>>

\* TraversePreOrder(const Node*): the values printed, in order
RECURSIVE TraversePreOrder(_)
RECURSIVE PreOrderForEach(_, _)
TraversePreOrder(node) ==
    IF node = Null
    THEN <<>>
    ELSE <<Node_m_nodeData[node]>> \o PreOrderForEach(m_children[node], 1)

\* the for_each over the children, from child i on
PreOrderForEach(children, i) ==
    IF i > Len(children)
    THEN <<>>
    ELSE TraversePreOrder(children[i]) \o PreOrderForEach(children, i + 1)

Call_TraversePreOrder ==
    /\ pc = "build"
    /\ m_children # <<>>
    /\ alg' = "PreOrder"
    /\ out' = TraversePreOrder(NodeRoot)
    /\ pc' = "done"
    /\ UNCHANGED <<last, start, stack, queue, visited>>
    /\ UNCHANGED <<graphVars, treeVars, nodeVars, concVars>>

\* mutant: the children are pushed first to last
Node_PushChildren_NotReversed(pending, children) == pending \o children

\* line 105: the children pushed last to first, so that the first is on top
Node_PushChildren(pending, children) == pending \o Reverse(children)

\* TraverseDepthFirst_NonRecursive(const Node*), lines 94-95
Node_TraverseDepthFirst_NonRecursive_Begin ==
    /\ pc = "build"
    /\ m_children # <<>>
    /\ alg' = "Node_DFS_NR"
    /\ stack' = <<NodeRoot>>
    /\ out' = <<>>
    /\ pc' = "loop"
    /\ UNCHANGED <<last, start, queue, visited>>
    /\ UNCHANGED <<graphVars, treeVars, nodeVars, concVars>>

\* one iteration of the while loop, lines 97-106
Node_TraverseDepthFirst_NonRecursive_Loop ==
    /\ pc = "loop"
    /\ alg = "Node_DFS_NR"
    /\ stack # <<>>
    /\ LET visit == stack[Len(stack)]
           popped == SubSeq(stack, 1, Len(stack) - 1)
       IN  /\ out' = Append(out, Node_m_nodeData[visit])
           /\ stack' = Node_PushChildren(popped, m_children[visit])
           /\ pc' = IF stack' = <<>> THEN "done" ELSE "loop"
    /\ UNCHANGED <<last, alg, start, queue, visited>>
    /\ UNCHANGED <<graphVars, treeVars, nodeVars, concVars>>

\* ------------------------------------------------------------------------
\* Specification of the N-ary tree: a root, AddChild calls on any node (the
\* values are 1, 2, 3, ... in the order of construction, as in Trees()),
\* then one traversal
\* ------------------------------------------------------------------------
NextTrees ==
    \/ Node_New(1)
    \/ \E node \in 1..MaxTreeNodes :
          /\ Len(m_children) < MaxTreeNodes
          /\ Node_AddChild(node, Len(m_children) + 1)
    \/ Call_TraversePreOrder
    \/ Node_TraverseDepthFirst_NonRecursive_Begin
    \/ Node_TraverseDepthFirst_NonRecursive_Loop

SpecTrees == InitTree /\ [][NextTrees]_vars

\* ------------------------------------------------------------------------
\* Concurrency demos (src/src/Concurrency.cpp)
\*
\* A thread takes one step at a time; a step holds at most one access to
\* an object shared between threads, with the thread-local work that
\* follows it.  The state after the main thread has created the threads is
\* the initial state: a thread that has not been created yet and one that
\* has not taken a step yet are the same to every other thread.
\* ------------------------------------------------------------------------
\* everything but the threads stays as it is
NoGraphNoTree == UNCHANGED <<graphVars, last, travVars, treeVars, nodeVars>>

\* thread t goes on at `to`
Goto(t, to) == tpc' = [tpc EXCEPT ![t] = to]

\* the main thread: thread->join() on the next thread of the vector
Main_Join ==
    /\ joined < Len(tpc)
    /\ tpc[joined + 1] = "done"
    /\ joined' = joined + 1
    /\ UNCHANGED <<threadMain, tpc, g_counter, reg, increment, g_mutex,
                   g_recursiveMutex, g_sharedValueForCondition,
                   g_conditionVarMutex, g_conditionVar, SemaphoreCounter>>
    /\ NoGraphNoTree

\* ------------------------------------------------------------------------
\* Mutex(): numThreads threads run one of the four thread functions, thread
\* i (1..numThreads here, 0..numThreads-1 in the source) with increment
\* i + 1 in the source, which is the thread's number here
\* ------------------------------------------------------------------------
\* const int numThreads = 10
numThreads == 10

\* mutant: the lock is taken whether or not another thread owns the mutex
Mutex_Lock_NoWait(t, from, to) ==
    /\ tpc[t] = from
    /\ g_mutex' = t
    /\ Goto(t, to)
    /\ UNCHANGED <<threadMain, joined, g_counter, reg, increment,
                   g_recursiveMutex, g_sharedValueForCondition,
                   g_conditionVarMutex, g_conditionVar, SemaphoreCounter>>
    /\ NoGraphNoTree

\* g_mutex.lock(), also as made by the constructor of std::lock_guard and
\* by std::unique_lock::lock: the thread blocks while the mutex is owned
Mutex_Lock(t, from, to) ==
    /\ tpc[t] = from
    /\ g_mutex = NoThread
    /\ g_mutex' = t
    /\ Goto(t, to)
    /\ UNCHANGED <<threadMain, joined, g_counter, reg, increment,
                   g_recursiveMutex, g_sharedValueForCondition,
                   g_conditionVarMutex, g_conditionVar, SemaphoreCounter>>
    /\ NoGraphNoTree

\* g_mutex.unlock(), also as made by the destructor of std::lock_guard and
\* by std::unique_lock::unlock
Mutex_Unlock(t, from, to) ==
    /\ tpc[t] = from
    /\ g_mutex = t
    /\ g_mutex' = NoThread
    /\ Goto(t, to)
    /\ UNCHANGED <<threadMain, joined, g_counter, reg, increment,
                   g_recursiveMutex, g_sharedValueForCondition,
                   g_conditionVarMutex, g_conditionVar, SemaphoreCounter>>
    /\ NoGraphNoTree

\* `g_counter += increment` and `g_counter++` are a load, an addition and a
\* store: the load
Counter_Load(t, from, to) ==
    /\ tpc[t] = from
    /\ reg' = [reg EXCEPT ![t] = g_counter]
    /\ Goto(t, to)
    /\ UNCHANGED <<threadMain, joined, g_counter, increment, g_mutex,
                   g_recursiveMutex, g_sharedValueForCondition,
                   g_conditionVarMutex, g_conditionVar, SemaphoreCounter>>
    /\ NoGraphNoTree

\* the store of the value loaded plus amount; the temporary that held the
\* value loaded is gone after it
Counter_Store(t, from, to, amount) ==
    /\ tpc[t] = from
    /\ g_counter' = reg[t] + amount
    /\ reg' = [reg EXCEPT ![t] = 0]
    /\ Goto(t, to)
    /\ UNCHANGED <<threadMain, joined, increment, g_mutex,
                   g_recursiveMutex, g_sharedValueForCondition,
                   g_conditionVarMutex, g_conditionVar, SemaphoreCounter>>
    /\ NoGraphNoTree

\* MainMutex, lines 74-83
MainMutex(t) ==
    /\ threadMain = "MainMutex"
    /\ \/ Mutex_Lock(t, "lock", "load")
       \/ Counter_Load(t, "load", "store")
       \/ Counter_Store(t, "store", "unlock", increment[t])
       \/ Mutex_Unlock(t, "unlock", "done")

\* MainMutexUsingLock, lines 85-95: the lock_guard locks where it is
\* constructed and unlocks when the function returns
MainMutexUsingLock(t) ==
    /\ threadMain = "MainMutexUsingLock"
    /\ \/ Mutex_Lock(t, "lock", "load")
       \/ Counter_Load(t, "load", "store")
       \/ Counter_Store(t, "store", "unlock", increment[t])
       \/ Mutex_Unlock(t, "unlock", "done")

\* MainMutexUsingUniqueLock, lines 114-131: the unique_lock is constructed
\* with std::defer_lock, so its constructor does not lock, and its
\* destructor finds the mutex released by lock.unlock() and does nothing
MainMutexUsingUniqueLock(t) ==
    /\ threadMain = "MainMutexUsingUniqueLock"
    /\ \/ Mutex_Lock(t, "lock", "load")
       \/ Counter_Load(t, "load", "store")
       \/ Counter_Store(t, "store", "unlock", increment[t])
       \/ Mutex_Unlock(t, "unlock", "done")

\* std::lock_guard<std::recursive_mutex> lock(g_recursiveMutex), line 100:
\* the thread blocks while another thread owns the mutex and locks it once
\* more when it owns it itself; then the test of line 102
RecursiveMutex_Lock(t) ==
    /\ tpc[t] = "lock"
    /\ g_recursiveMutex.owner \in {NoThread, t}
    /\ g_recursiveMutex' = [owner |-> t, count |-> g_recursiveMutex.count + 1]
    /\ Goto(t, IF increment[t] = 0 THEN "return" ELSE "load")
    /\ UNCHANGED <<threadMain, joined, g_counter, reg, increment, g_mutex,
                   g_sharedValueForCondition, g_conditionVarMutex,
                   g_conditionVar, SemaphoreCounter>>
    /\ NoGraphNoTree

\* the store of g_counter++ and the call MainRecursiveMutex(id, increment - 1)
RecursiveMutex_StoreAndCall(t) ==
    /\ tpc[t] = "store"
    /\ g_counter' = reg[t] + 1
    /\ reg' = [reg EXCEPT ![t] = 0]
    /\ increment' = [increment EXCEPT ![t] = @ - 1]
    /\ Goto(t, "lock")
    /\ UNCHANGED <<threadMain, joined, g_mutex, g_recursiveMutex,
                   g_sharedValueForCondition, g_conditionVarMutex,
                   g_conditionVar, SemaphoreCounter>>
    /\ NoGraphNoTree

\* a call of MainRecursiveMutex returns: its lock_guard unlocks once; the
\* caller has nothing left to do but return as well
RecursiveMutex_Return(t) ==
    /\ tpc[t] = "return"
    /\ g_recursiveMutex.owner = t
    /\ LET count == g_recursiveMutex.count - 1
       IN  /\ g_recursiveMutex' =
                 [owner |-> IF count = 0 THEN NoThread ELSE t, count |-> count]
           /\ Goto(t, IF count = 0 THEN "done" ELSE "return")
    /\ UNCHANGED <<threadMain, joined, g_counter, reg, increment, g_mutex,
                   g_sharedValueForCondition, g_conditionVarMutex,
                   g_conditionVar, SemaphoreCounter>>
    /\ NoGraphNoTree

\* MainRecursiveMutex, lines 97-112
MainRecursiveMutex(t) ==
    /\ threadMain = "MainRecursiveMutex"
    /\ \/ RecursiveMutex_Lock(t)
       \/ Counter_Load(t, "load", "store")
       \/ RecursiveMutex_StoreAndCall(t)
       \/ RecursiveMutex_Return(t)

MutexThreads == 1..numThreads

\* runFunc, lines 137-149: g_counter = 0 and the threads created
InitMutex ==
    /\ GraphIdle
    /\ TravIdle
    /\ TreeIdle
    /\ NodeIdle
    /\ threadMain \in {"MainMutex", "MainMutexUsingLock", "MainRecursiveMutex",
                       "MainMutexUsingUniqueLock"}
    /\ tpc = [t \in MutexThreads |-> "lock"]
    /\ joined = 0
    /\ g_counter = 0
    /\ reg = [t \in MutexThreads |-> 0]
    /\ increment = [t \in MutexThreads |-> t]
    /\ g_mutex = NoThread
    /\ g_recursiveMutex = [owner |-> NoThread, count |-> 0]
    /\ g_sharedValueForCondition = 0
    /\ g_conditionVarMutex = NoThread
    /\ g_conditionVar = {}
    /\ SemaphoreCounter = 0

NextMutex ==
    \/ \E t \in MutexThreads : MainMutex(t)
    \/ \E t \in MutexThreads : MainMutexUsingLock(t)
    \/ \E t \in MutexThreads : MainRecursiveMutex(t)
    \/ \E t \in MutexThreads : MainMutexUsingUniqueLock(t)
    \/ Main_Join

\* a thread that can run is run: while some thread or the main thread has
\* a step to take, a step is taken
SpecMutex == InitMutex /\ [][NextMutex]_vars /\ WF_vars(NextMutex)

\* ------------------------------------------------------------------------
\* ConditionalVariables(): three threads wait for g_sharedValueForCondition
\* to be 1 and a fourth one sets it
\* ------------------------------------------------------------------------
\* t1, t2 and t3 of lines 474 and 484
Waiters == 1..3

\* t4 of lines 474 and 484
Signaller == 4

\* what the steps on the condition variable leave alone
NoCounterNoSemaphore ==
    UNCHANGED <<threadMain, joined, g_counter, reg, increment, g_mutex,
                g_recursiveMutex, SemaphoreCounter>>

\* std::unique_lock / std::lock_guard on g_conditionVarMutex: the thread
\* blocks while the mutex is owned
CV_Lock(t, from, to) ==
    /\ tpc[t] = from
    /\ g_conditionVarMutex = NoThread
    /\ g_conditionVarMutex' = t
    /\ Goto(t, to)
    /\ UNCHANGED <<g_sharedValueForCondition, g_conditionVar>>
    /\ NoCounterNoSemaphore
    /\ NoGraphNoTree

\* the destructor of the unique_lock or lock_guard
CV_Unlock(t, from, to) ==
    /\ tpc[t] = from
    /\ g_conditionVarMutex = t
    /\ g_conditionVarMutex' = NoThread
    /\ Goto(t, to)
    /\ UNCHANGED <<g_sharedValueForCondition, g_conditionVar>>
    /\ NoCounterNoSemaphore
    /\ NoGraphNoTree

\* the test of g_sharedValueForCondition, made with the mutex owned: the
\* condition of the while loop of line 430, the predicate of line 448
CV_Check(t) ==
    /\ tpc[t] = "check"
    /\ g_conditionVarMutex = t
    /\ Goto(t, IF g_sharedValueForCondition # 1 THEN "wait" ELSE "unlock")
    /\ UNCHANGED <<g_sharedValueForCondition, g_conditionVarMutex,
                   g_conditionVar>>
    /\ NoCounterNoSemaphore
    /\ NoGraphNoTree

\* g_conditionVar.wait(lock): in one step the mutex is released and the
\* thread is blocked on the condition variable
CV_Wait(t) ==
    /\ tpc[t] = "wait"
    /\ g_conditionVarMutex = t
    /\ g_conditionVarMutex' = NoThread
    /\ g_conditionVar' = g_conditionVar \cup {t}
    /\ Goto(t, "blocked")
    /\ UNCHANGED g_sharedValueForCondition
    /\ NoCounterNoSemaphore
    /\ NoGraphNoTree

\* a thread blocked in wait is unblocked without any notification
CV_SpuriousWakeUp(t) ==
    /\ t \in g_conditionVar
    /\ g_conditionVar' = g_conditionVar \ {t}
    /\ UNCHANGED <<tpc, g_sharedValueForCondition, g_conditionVarMutex>>
    /\ NoCounterNoSemaphore
    /\ NoGraphNoTree

\* mutant: the thread unblocked leaves the wait without a new test
CV_Relock_NoTest(t) ==
    /\ tpc[t] = "blocked"
    /\ t \notin g_conditionVar
    /\ g_conditionVarMutex = NoThread
    /\ g_conditionVarMutex' = t
    /\ Goto(t, "unlock")
    /\ UNCHANGED <<g_sharedValueForCondition, g_conditionVar>>
    /\ NoCounterNoSemaphore
    /\ NoGraphNoTree

\* the thread unblocked locks the mutex again before wait returns; then
\* the condition of the loop, or the predicate, is tested again
CV_Relock(t) ==
    /\ tpc[t] = "blocked"
    /\ t \notin g_conditionVar
    /\ g_conditionVarMutex = NoThread
    /\ g_conditionVarMutex' = t
    /\ Goto(t, "check")
    /\ UNCHANGED <<g_sharedValueForCondition, g_conditionVar>>
    /\ NoCounterNoSemaphore
    /\ NoGraphNoTree

\* MainCVWaits, lines 421-436
MainCVWaits(t) ==
    /\ threadMain = "MainCVWaits"
    /\ \/ CV_Lock(t, "lock", "check")
       \/ CV_Check(t)
       \/ CV_Wait(t)
       \/ CV_Relock(t)
       \/ CV_Unlock(t, "unlock", "done")

\* MainCVWaitsCompact, lines 438-450: wait(lock, pred) is
\* while (!pred()) wait(lock)
MainCVWaitsCompact(t) ==
    /\ threadMain = "MainCVWaitsCompact"
    /\ \/ CV_Lock(t, "lock", "check")
       \/ CV_Check(t)
       \/ CV_Wait(t)
       \/ CV_Relock(t)
       \/ CV_Unlock(t, "unlock", "done")

\* g_conditionVar.notify_all(): every thread blocked is unblocked
CV_NotifyAll(t, from, to) ==
    /\ tpc[t] = from
    /\ g_conditionVar' = {}
    /\ Goto(t, to)
    /\ UNCHANGED <<g_sharedValueForCondition, g_conditionVarMutex>>
    /\ NoCounterNoSemaphore
    /\ NoGraphNoTree

\* g_sharedValueForCondition = 1, line 464, with the mutex owned
CV_SetValue(t) ==
    /\ tpc[t] = "set"
    /\ g_conditionVarMutex = t
    /\ g_sharedValueForCondition' = 1
    /\ Goto(t, "unlock2")
    /\ UNCHANGED <<g_conditionVarMutex, g_conditionVar>>
    /\ NoCounterNoSemaphore
    /\ NoGraphNoTree

\* MainCVSignals, lines 452-468; the two sleep_for only delay the thread
MainCVSignals ==
    \/ CV_Lock(Signaller, "lock", "unlock1")
    \/ CV_Unlock(Signaller, "unlock1", "notify1")
    \/ CV_NotifyAll(Signaller, "notify1", "lock2")
    \/ CV_Lock(Signaller, "lock2", "set")
    \/ CV_SetValue(Signaller)
    \/ CV_Unlock(Signaller, "unlock2", "notify2")
    \/ CV_NotifyAll(Signaller, "notify2", "done")

\* lines 473-474 and 483-484: the value reset and the four threads created
InitConditionalVariables ==
    /\ GraphIdle
    /\ TravIdle
    /\ TreeIdle
    /\ NodeIdle
    /\ threadMain \in {"MainCVWaits", "MainCVWaitsCompact"}
    /\ tpc = [t \in Waiters \cup {Signaller} |-> "lock"]
    /\ joined = 0
    /\ g_counter = 0
    /\ reg = <<>>
    /\ increment = <<>>
    /\ g_mutex = NoThread
    /\ g_recursiveMutex = [owner |-> NoThread, count |-> 0]
    /\ g_sharedValueForCondition = 0
    /\ g_conditionVarMutex = NoThread
    /\ g_conditionVar = {}
    /\ SemaphoreCounter = 0

NextConditionalVariables ==
    \/ \E t \in Waiters : MainCVWaits(t)
    \/ \E t \in Waiters : MainCVWaitsCompact(t)
    \/ \E t \in Waiters : CV_SpuriousWakeUp(t)
    \/ MainCVSignals
    \/ Main_Join

\* every thread that can take a step again and again takes one, the lock
\* of a mutex that is free again and again included; nothing is required
\* of the spurious wake-ups
SpecConditionalVariables ==
    /\ InitConditionalVariables
    /\ [][NextConditionalVariables]_vars
    /\ \A t \in Waiters : SF_vars(MainCVWaits(t))
    /\ \A t \in Waiters : SF_vars(MainCVWaitsCompact(t))
    /\ SF_vars(MainCVSignals)
    /\ WF_vars(Main_Join)

\* ------------------------------------------------------------------------
\* Semaphores(): ten threads share SemaphoreMaxResources resources
\* ------------------------------------------------------------------------
\* constexpr int SemaphoreMaxResources = 3
SemaphoreMaxResources == 3

\* the threads of the loop of line 524, 0..9 in the source
SemaphoreThreads == 1..10

\* what the steps on the semaphore leave alone
NoCounterNoCondition ==
    UNCHANGED <<threadMain, joined, g_counter, reg, increment, g_mutex,
                g_recursiveMutex, g_sharedValueForCondition,
                g_conditionVarMutex, g_conditionVar>>

\* mutant: the counter is decremented whatever its value
Semaphore_Acquire_NoWait(t) ==
    /\ tpc[t] = "acquire"
    /\ SemaphoreCounter' = SemaphoreCounter - 1
    /\ Goto(t, "working")
    /\ NoCounterNoCondition
    /\ NoGraphNoTree

\* SemaphoreCounter.acquire(): the thread blocks while the counter is 0,
\* then decrements it
Semaphore_Acquire(t) ==
    /\ tpc[t] = "acquire"
    /\ SemaphoreCounter > 0
    /\ SemaphoreCounter' = SemaphoreCounter - 1
    /\ Goto(t, "working")
    /\ NoCounterNoCondition
    /\ NoGraphNoTree

\* lines 514-516: the thread works (two printf and a sleep)
Semaphore_Work(t) ==
    /\ tpc[t] = "working"
    /\ Goto(t, "release")
    /\ UNCHANGED SemaphoreCounter
    /\ NoCounterNoCondition
    /\ NoGraphNoTree

\* SemaphoreCounter.release(): the counter is incremented
Semaphore_Release(t) ==
    /\ tpc[t] = "release"
    /\ SemaphoreCounter' = SemaphoreCounter + 1
    /\ Goto(t, "done")
    /\ NoCounterNoCondition
    /\ NoGraphNoTree

\* MainSemaphores, lines 510-519
MainSemaphores(t) ==
    /\ threadMain = "MainSemaphores"
    /\ \/ Semaphore_Acquire(t)
       \/ Semaphore_Work(t)
       \/ Semaphore_Release(t)

\* line 506 and lines 523-526: the semaphore constructed with
\* SemaphoreMaxResources, the threads created
InitSemaphores ==
    /\ GraphIdle
    /\ TravIdle
    /\ TreeIdle
    /\ NodeIdle
    /\ threadMain = "MainSemaphores"
    /\ tpc = [t \in SemaphoreThreads |-> "acquire"]
    /\ joined = 0
    /\ g_counter = 0
    /\ reg = <<>>
    /\ increment = <<>>
    /\ g_mutex = NoThread
    /\ g_recursiveMutex = [owner |-> NoThread, count |-> 0]
    /\ g_sharedValueForCondition = 0
    /\ g_conditionVarMutex = NoThread
    /\ g_conditionVar = {}
    /\ SemaphoreCounter = SemaphoreMaxResources

NextSemaphores ==
    \/ \E t \in SemaphoreThreads : MainSemaphores(t)
    \/ Main_Join

\* while some thread or the main thread has a step to take, a step is taken
SpecSemaphores ==
    InitSemaphores /\ [][NextSemaphores]_vars /\ WF_vars(NextSemaphores)

\* ========================================================================
\* Properties
\* ========================================================================
\* v is a vertex of a graph constructed with vertexCount = size
InRange(v) == v >= 0 /\ v < size

Sized == kind # "GraphEdgeList"

\* an edge from a to b is in the graph's storage
EdgeStored(a, b) ==
    CASE kind = "GraphEdgeList" ->
            \E i \in 1..Len(m_edgeList) :
                \/ (m_edgeList[i].m_vertex1 = a /\ m_edgeList[i].m_vertex2 = b)
                \/ /\ ~m_isDirected
                   /\ m_edgeList[i].m_vertex1 = b
                   /\ m_edgeList[i].m_vertex2 = a
      [] kind = "GraphAdjecencyMatrix" ->
            InRange(a) /\ InRange(b) /\ m_matrix[a][b] # 0
      [] kind = "GraphAdjecencyList" ->
            /\ InRange(a)
            /\ \E i \in 1..Len(m_vertices[a]) : m_vertices[a][i].m_vertex2 = b

\* the vertices a traversal may meet
Universe == ((-1)..size) \cup {start}

\* the vertices reachable from the set S along edges (GetEdge # 0)
RECURSIVE ReachableFrom(_)
ReachableFrom(S) ==
    LET T == S \cup {b \in Universe : \E a \in S : GetEdge(a, b) # 0}
    IN  IF T = S THEN S ELSE ReachableFrom(T)

NoDuplicates(s) == \A i, j \in 1..Len(s) : i # j => s[i] # s[j]

\* C1: when a traversal (recursive DFS, iterative DFS, iterative BFS) of a
\* graph of any variant, directed or not, has finished, it has emitted
\* exactly the vertices reachable from the start vertex, each exactly once.
C1_EmitsReachableOnce ==
    pc = "done" => (Range(out) = ReachableFrom({start}) /\ NoDuplicates(out))

\* C1 holds of the directed graphs and of the undirected matrix and
\* adjacency-list graphs: only the undirected edge list breaks it.
C1_ExceptUndirectedEdgeList ==
    (pc = "done" /\ (m_isDirected \/ kind # "GraphEdgeList")) =>
        (Range(out) = ReachableFrom({start}) /\ NoDuplicates(out))

\* C2: the iterative depth-first traversal emits the vertices in the order
\* in which the recursive one emits them, for every graph and start vertex.
C2_SameOrderAsRecursive ==
    (pc = "done" /\ alg = "DFS_NR") => out = TraverseDepthFirst_Recursive(start, <<>>)

\* C3: in a directed graph, right after SetEdge(a,b,w) with w # 0 on a pair
\* of vertices, GetEdge(a,b) returns w.
C3_GetAfterSetDirected ==
    ( /\ last.op = "SetEdge"
      /\ m_isDirected
      /\ last.weight # 0
      /\ InRange(last.v1)
      /\ InRange(last.v2) ) => GetEdge(last.v1, last.v2) = last.weight

\* C4: in an undirected graph, right after SetEdge(a,b,w) on a pair of
\* vertices, GetEdge(a,b) and GetEdge(b,a) both return w (stated here for the
\* calls with w # 0, the ones that have an edge to store).
C4_GetAfterSetUndirected ==
    ( /\ last.op = "SetEdge"
      /\ ~m_isDirected
      /\ last.weight # 0
      /\ InRange(last.v1)
      /\ InRange(last.v2) ) =>
        /\ GetEdge(last.v1, last.v2) = last.weight
        /\ GetEdge(last.v2, last.v1) = last.weight

\* C5: in every state of an undirected graph, of any variant and after any
\* SetEdge calls, GetEdge(a,b) = GetEdge(b,a) for all a and b.
C5_UndirectedSymmetric ==
    ~m_isDirected =>
        \A a \in VertexArgs, b \in VertexArgs : GetEdge(a, b) = GetEdge(b, a)

\* an undirected graph where a pair of distinct vertices was set twice, with
\* two weights (GetEdge keeps returning the first)
C5_Witness ==
    /\ ~m_isDirected
    /\ last.op = "SetEdge"
    /\ last.v1 # last.v2
    /\ last.weight # 0
    /\ GetEdge(last.v1, last.v2) # 0
    /\ GetEdge(last.v1, last.v2) # last.weight

C6_NoOpStep ==
    last' = [NoCall EXCEPT !.op = "SetEdge"] => UNCHANGED graphVars

C6_NoZeroStored ==
    /\ \A i \in 1..Len(m_edgeList) : m_edgeList[i].m_weight # 0
    /\ \A v \in 0..(size - 1) :
          \A i \in 1..Len(m_vertices[v]) : m_vertices[v][i].m_weight # 0
    /\ \A v \in VertexArgs :
          \A i \in 1..Len(GetEdges(v)) : GetEdges(v)[i].m_weight # 0

\* C6: SetEdge with weight 0, or (matrix, adjacency list) with a vertex out
\* of [0, vertexCount), negative ones included, changes nothing of the
\* graph; no stored edge and no edge GetEdges returns has weight 0.
C6_SetEdgeNoOp == [][C6_NoOpStep]_vars /\ []C6_NoZeroStored

\* a SetEdge that changed nothing was just made on an adjacency list that
\* holds edges
C6_Witness ==
    /\ last = [NoCall EXCEPT !.op = "SetEdge"]
    /\ kind = "GraphAdjecencyList"
    /\ StoredEdges > 0

C7_Returns ==
    /\ \A a \in VertexArgs, b \in VertexArgs :
          ((Sized /\ (~InRange(a) \/ ~InRange(b))) \/ ~EdgeStored(a, b))
              => GetEdge(a, b) = 0
    /\ \A v \in VertexArgs : (Sized /\ ~InRange(v)) => GetEdges(v) = <<>>

C7_ConstStep ==
    last'.op \in {"GetEdge", "GetEdges"} => UNCHANGED graphVars

\* C7: GetEdge returns 0 when the edge is not stored or an index is out of
\* [0, vertexCount), negative ones included; GetEdges returns no edge for a
\* vertex out of range; both are defined for every argument and change
\* nothing of the graph.
C7_QueriesTotal == [][C7_ConstStep]_vars /\ []C7_Returns

\* GetEdge was just called on a matrix that holds an edge from 0: it is 0
\* for a negative index and for the index vertexCount
C7_Witness ==
    /\ last.op = "GetEdge"
    /\ kind = "GraphAdjecencyMatrix"
    /\ \E b \in Vertices : GetEdge(0, b) # 0
    /\ GetEdge(-1, 0) = 0
    /\ GetEdge(0, size) = 0
    /\ GetEdges(-1) = <<>>

\* C8: a finished traversal of a matrix or adjacency-list graph from a
\* start vertex out of [0, vertexCount) has emitted no vertex.
C8_InvalidStartEmitsNothing ==
    (pc = "done" /\ Sized /\ ~InRange(start)) => out = <<>>

Sorted(s) == \A i \in 1..(Len(s) - 1) : s[i] <= s[i + 1]

Count(s, v) == Cardinality({i \in 1..Len(s) : s[i] = v})

\* C9: after any sequence of Insert calls every node has only values <= its
\* own in its left subtree and only values > its own in its right subtree,
\* and the in-order traversal emits all inserted values, duplicates
\* included, in non-decreasing order.
C9_BstOrderedAfterInserts ==
    /\ \A n \in TreeNodes :
          /\ \A x \in Subtree(m_left[n]) : m_nodeData[x] <= m_nodeData[n]
          /\ \A x \in Subtree(m_right[n]) : m_nodeData[x] > m_nodeData[n]
    /\ Sorted(TraverseInOrder(treeRoot))
    /\ \A v \in Values : Count(TraverseInOrder(treeRoot), v) = content[v]

\* an Insert was just made into a tree that holds a value twice and has a
\* node with two children
C9_Witness ==
    /\ treeLast.op = "Insert"
    /\ \E v \in Values : content[v] >= 2
    /\ \E n \in TreeNodes : m_left[n] # Null /\ m_right[n] # Null

\* C10: after any sequence of Insert and Delete calls every node reachable
\* from the root is allocated, the reachable nodes hold exactly the values
\* inserted less one per successful Delete, and the in-order traversal is
\* in non-decreasing order.
C10_TreeHoldsContent ==
    /\ TreeNodes \subseteq alloc
    /\ Sorted(TraverseInOrder(treeRoot))
    /\ \A v \in Values : Count(TraverseInOrder(treeRoot), v) = content[v]

\* the node Delete(v) or Find(v) stops at in this state (Null: none)
Target(v) == NodeBST_Find(Heap, treeRoot, v).node

\* the step is the call Delete(v)
DeleteStep(v) == treeLast'.op = "Delete" /\ treeLast'.data = v

\* C11: Delete of a node n with exactly one child c puts c where n was (in
\* the parent's link to n, or as the root) and destroys n only: the nodes
\* below c stay alive, are reached from the root and keep their values.
C11_OneChildSplice ==
    [][\A v \in Values :
          LET n == Target(v)
              c == IF m_left[n] # Null THEN m_left[n] ELSE m_right[n]
              parent == m_parent[n]
          IN  (SoundTree /\ DeleteStep(v) /\ n # Null /\ Cardinality(Children(n)) = 1)
              => /\ alloc' = alloc \ {n}
                 /\ IF parent = Null
                    THEN treeRoot' = c
                    ELSE IF m_left[parent] = n THEN m_left'[parent] = c
                                               ELSE m_right'[parent] = c
                 /\ Subtree(c) \subseteq TreeNodes'
                 /\ \A x \in Subtree(c) : m_nodeData'[x] = m_nodeData[x]]_vars

\* C12: Delete of a node with two children leaves a tree whose in-order
\* traversal is sorted and that has exactly one node fewer, all of them
\* alive, whatever the shape below the node.
C12_TwoChildrenDelete ==
    [][\A v \in Values :
          LET n == Target(v)
          IN  (SoundTree /\ DeleteStep(v) /\ n # Null /\ Cardinality(Children(n)) = 2)
              => /\ ~ub'
                 /\ TreeNodes' = alloc'
                 /\ Cardinality(alloc') = Cardinality(alloc) - 1
                 /\ Sorted(TraverseInOrder(treeRoot))']_vars

\* C13: right after Insert(v), Find(v) returns a node that holds v; right
\* after Delete(v), on a tree that is sound, Find(v) returns null.
C13_FindAfterInsertAndDelete ==
    /\ (~ub /\ treeLast.op = "Insert") =>
          LET f == NodeBST_Find(Heap, treeRoot, treeLast.data)
          IN  ~f.ub /\ f.node # Null /\ m_nodeData[f.node] = treeLast.data
    /\ (SoundTree /\ treeLast.op = "Delete") =>
          LET f == NodeBST_Find(Heap, treeRoot, treeLast.data)
          IN  ~f.ub /\ f.node = Null

\* C14: every node hanging from a node p has p as its m_parent, the root
\* and only the root has no parent, and no node hangs from two nodes.
C14_LinksConsistent ==
    (~ub /\ treeRoot # Null) =>
        /\ TreeNodes \subseteq alloc
        /\ m_parent[treeRoot] = Null
        /\ \A x \in TreeNodes : m_parent[x] = Null => x = treeRoot
        /\ \A p \in TreeNodes : \A c \in Children(p) : m_parent[c] = p
        /\ \A p \in TreeNodes :
              /\ m_left[p] = Null \/ m_left[p] # m_right[p]
              /\ \A q \in TreeNodes \ {p} : Children(p) \cap Children(q) = {}

\* the one child of a node that has one
OnlyChild(n) == IF m_left[n] # Null THEN m_left[n] ELSE m_right[n]

\* C15 as the code has it: Delete(v) that finds v at node n returns the
\* parent of n; when n is the root it returns n's child if n has one child,
\* n itself (now with the predecessor's value) if it has two, and null if
\* it has none.
C15_ReturnsParentOrNewRoot ==
    [][\A v \in Values :
          LET n == Target(v)
          IN  (SoundTree /\ DeleteStep(v) /\ n # Null)
              => treeLast'.ret =
                    IF m_parent[n] # Null THEN m_parent[n]
                    ELSE IF Children(n) = {} THEN Null
                    ELSE IF Cardinality(Children(n)) = 1 THEN OnlyChild(n)
                    ELSE n]_vars

\* a Delete just returned a live node that is not the root, and the tree is
\* sound: the node removed hung from a node that is not the root
C15_Witness ==
    /\ SoundTree
    /\ treeLast.op = "Delete"
    /\ treeLast.ret \in alloc \ {treeRoot}

\* C15 as stated: Delete(v) that finds v at node n returns the child put in
\* n's place if n has one child, n itself if it has two, and null exactly
\* when n is the root and a leaf.
C15_ReturnsReplacement ==
    [][\A v \in Values :
          LET n == Target(v)
          IN  (SoundTree /\ DeleteStep(v) /\ n # Null)
              => /\ Cardinality(Children(n)) = 1 => treeLast'.ret = OnlyChild(n)
                 /\ Cardinality(Children(n)) = 2 => treeLast'.ret = n
                 /\ treeLast'.ret = Null <=> (n = treeRoot /\ Children(n) = {})]_vars

\* no node of the tree holds v
Absent(v) == \A x \in TreeNodes : m_nodeData[x] # v

\* the step is the call Find(v)
FindStep(v) == treeLast'.op = "Find" /\ treeLast'.data = v

TreeUnchanged == UNCHANGED <<treeRoot, m_nodeData, m_parent, m_left, m_right, alloc>>

\* C16: Find(v) and Delete(v) for a value no node holds return null and
\* change no node; Find changes no node whatever it returns.
C16_NotFoundLeavesTree ==
    [][\A v \in Values :
          /\ (~ub /\ ~ub' /\ treeRoot # Null /\ FindStep(v)) => TreeUnchanged
          /\ (SoundTree /\ Absent(v) /\ (FindStep(v) \/ DeleteStep(v)))
                => /\ ~ub'
                   /\ treeLast'.ret = Null
                   /\ TreeUnchanged]_vars

\* Delete of a value that the tree does not hold just returned null on a
\* tree of two nodes or more
C16_Witness ==
    /\ SoundTree
    /\ treeLast.op = "Delete"
    /\ treeLast.ret = Null
    /\ Absent(treeLast.data)
    /\ Cardinality(alloc) >= 2

\* the step is the call Insert(v)
InsertStep(v) == treeLast'.op = "Insert" /\ treeLast'.data = v

\* where the descent of Insert(v) from node x ends: the last node and the
\* side of its null link
RECURSIVE DescentStop(_, _)
DescentStop(x, v) ==
    IF v > m_nodeData[x]
    THEN IF m_right[x] = Null THEN [node |-> x, side |-> "right"]
                              ELSE DescentStop(m_right[x], v)
    ELSE IF m_left[x] = Null THEN [node |-> x, side |-> "left"]
                             ELSE DescentStop(m_left[x], v)

\* C17: Insert(v) creates one node, a leaf that holds v, hung on the null
\* link where the descent (right if v > value, left otherwise) ends, with
\* that node as its parent; it returns the new node and changes nothing
\* else, also when v is in the tree already.
C17_InsertAddsOneLeaf ==
    [][\A v \in Values :
          LET n == treeLast'.ret
              stop == DescentStop(treeRoot, v)
              p == stop.node
          IN  (SoundTree /\ InsertStep(v))
              => /\ n \notin alloc
                 /\ alloc' = alloc \cup {n}
                 /\ treeRoot' = treeRoot
                 /\ m_nodeData'[n] = v
                 /\ m_parent'[n] = p
                 /\ m_left'[n] = Null /\ m_right'[n] = Null
                 /\ IF stop.side = "right"
                    THEN m_right'[p] = n /\ m_left'[p] = m_left[p]
                    ELSE m_left'[p] = n /\ m_right'[p] = m_right[p]
                 /\ \A x \in alloc :
                       /\ m_nodeData'[x] = m_nodeData[x]
                       /\ m_parent'[x] = m_parent[x]
                       /\ x # p => (m_left'[x] = m_left[x] /\ m_right'[x] = m_right[x])]_vars

\* Insert just added a value that the tree held already, below a node
\* that is not the root
C17_Witness ==
    /\ treeLast.op = "Insert"
    /\ content[treeLast.data] >= 2
    /\ treeLast.ret \in alloc
    /\ m_parent[treeLast.ret] \notin {Null, treeRoot}

\* C18: Delete of a leaf n sets the link of its parent that pointed to n to
\* null and destroys n; the parent's other link and every other node are
\* as before.  When n is the root the tree is empty and null is returned.
C18_LeafDelete ==
    [][\A v \in Values :
          LET n == Target(v)
              parent == m_parent[n]
          IN  (SoundTree /\ DeleteStep(v) /\ n # Null /\ Children(n) = {})
              => /\ ~ub'
                 /\ alloc' = alloc \ {n}
                 /\ \A x \in alloc \ {n} :
                       /\ m_nodeData'[x] = m_nodeData[x]
                       /\ m_parent'[x] = m_parent[x]
                       /\ x # parent => (m_left'[x] = m_left[x] /\ m_right'[x] = m_right[x])
                 /\ IF parent = Null
                    THEN alloc' = {} /\ treeLast'.ret = Null
                    ELSE IF m_left[parent] = n
                    THEN m_left'[parent] = Null /\ m_right'[parent] = m_right[parent]
                    ELSE m_right'[parent] = Null /\ m_left'[parent] = m_left[parent]]_vars

\* Delete just removed the right child of the root, a leaf: the root is
\* returned, is the only node left and holds less than the value deleted
C18_Witness ==
    /\ SoundTree
    /\ treeLast.op = "Delete"
    /\ treeLast.ret = treeRoot
    /\ alloc = {treeRoot}
    /\ treeLast.data > m_nodeData[treeRoot]

\* the graph is the one the nine SetEdge calls of the source build
GraphsBuilt == StoredEdges = Len(GraphsEdges)

\* C20: on the directed edge list built by the nine SetEdge calls,
\* TraverseBreathFirst_NonRecursive from vertex 2 prints 2 0 1 4 3 5.
C20_BreadthFirstFrom2 ==
    ( /\ kind = "GraphEdgeList"
      /\ m_isDirected
      /\ GraphsBuilt
      /\ alg = "BFS_NR"
      /\ start = 2
      /\ pc = "done" ) => out = <<2, 0, 1, 4, 3, 5>>

\* the breadth-first traversal from 2 has finished on the directed edge
\* list that holds the nine edges in the order of the calls
C20_Witness ==
    /\ kind = "GraphEdgeList"
    /\ m_isDirected
    /\ m_edgeList = [i \in 1..Len(GraphsEdges) |->
                        Edge(GraphsEdges[i][1], GraphsEdges[i][2], GraphsEdges[i][3])]
    /\ alg = "BFS_NR"
    /\ start = 2
    /\ pc = "done"
    /\ Len(out) = graphVertexCount

\* the tree holds the seven values of the source
BinarySearchTreeBuilt ==
    /\ ~ub
    /\ treeRoot # Null
    /\ \A v \in Range(BinarySearchTreeValues) : content[v] = 1

\* C19: the tree built from 30, 23, 35, 11, 25, 31, 42 is traversed in
\* order as 11 23 25 30 31 35 42, and after Delete(23) as 11 25 30 31 35 42.
C19_BinarySearchTreeScenario ==
    /\ [](BinarySearchTreeBuilt =>
            TraverseInOrder(treeRoot) = <<11, 23, 25, 30, 31, 35, 42>>)
    /\ [][(BinarySearchTreeBuilt /\ treeLast'.op = "Delete" /\ treeLast'.data = 23)
            => /\ ~ub'
               /\ TreeNodes' = alloc'
               /\ TraverseInOrder(treeRoot)' = <<11, 25, 30, 31, 35, 42>>]_vars

\* Delete(23) was just called on the tree of the seven values: the node
\* that held 23, the left child of the root, now holds 11 and has 25 as its
\* only child, and six nodes are left
C19_Witness ==
    /\ SoundTree
    /\ treeLast = [op |-> "Delete", data |-> 23, ret |-> treeRoot]
    /\ Cardinality(alloc) = Len(BinarySearchTreeValues) - 1
    /\ \A v \in Range(BinarySearchTreeValues) \ {23} : content[v] = 1
    /\ m_nodeData[treeRoot] = 30
    /\ m_nodeData[m_left[treeRoot]] = 11
    /\ m_left[m_left[treeRoot]] = Null
    /\ m_nodeData[m_right[m_left[treeRoot]]] = 25

\* C21: when TraverseDepthFirst_NonRecursive has finished on an N-ary tree,
\* it has printed every node exactly once, in the order in which
\* TraversePreOrder prints them (self, then the children left to right).
C21_DepthFirstIsPreOrder ==
    (alg = "Node_DFS_NR" /\ pc = "done") =>
        /\ out = TraversePreOrder(NodeRoot)
        /\ Len(out) = Len(m_children)
        /\ \A n \in 1..Len(m_children) : Count(out, Node_m_nodeData[n]) = 1

\* the traversal has finished on a tree whose root has two children or
\* more, the first of them with children of its own
C21_Witness ==
    /\ alg = "Node_DFS_NR"
    /\ pc = "done"
    /\ Len(m_children[NodeRoot]) >= 2
    /\ m_children[m_children[NodeRoot][1]] # <<>>

\* C22: when Delete finds its value at a node n with two children, the node
\* M reached from n's left child along right links holds the maximum of the
\* left subtree and has no right child; the nested Delete call made on M
\* finds its value at M itself and goes through case 1 or case 2, never
\* case 3; after the call n is alive and holds the value M held.
C22_PredecessorResolves ==
    [][\A v \in Values :
          LET n == Target(v)
              max == NodeBST_MaxIn(Heap, m_left[n])
              M == max.node
              H1 == [Heap EXCEPT !.d[n] = m_nodeData[M]]
              nested == NodeBST_Delete(H1, M, H1.d[n])
          IN  (SoundTree /\ DeleteStep(v) /\ n # Null /\ Cardinality(Children(n)) = 2)
              => /\ ~max.ub
                 /\ M \in Subtree(m_left[n])
                 /\ \A x \in Subtree(m_left[n]) : m_nodeData[x] <= m_nodeData[M]
                 /\ m_right[M] = Null
                 /\ nested.found = M
                 /\ nested.case \in {1, 2}
                 /\ Heap' = nested.H
                 /\ ~ub'
                 /\ n \in alloc'
                 /\ m_nodeData'[n] = m_nodeData[M]]_vars

\* Delete just returned the root of a sound tree, for a value greater than
\* the one the root holds now, and the root still has a right child: the
\* node removed was not a leaf below the root, the value was taken from a
\* node with two children (the root or its right child)
C22_Witness ==
    /\ SoundTree
    /\ treeLast.op = "Delete"
    /\ treeLast.ret = treeRoot
    /\ treeLast.data > m_nodeData[treeRoot]
    /\ m_left[treeRoot] = Null
    /\ m_right[treeRoot] # Null

\* the vertices on the stack or in the queue of the loop that is running
Pending == IF alg = "DFS_NR" THEN stack ELSE queue

\* no vertex is entered, pushed or enqueued twice: the visited vector, to
\* which every vertex entered, pushed or enqueued is appended, has no
\* duplicate, and neither has what the recursive traversal would enter from
\* any start vertex
C23_VisitedOnce ==
    /\ NoDuplicates(visited)
    /\ NoDuplicates(Pending)
    /\ NoDuplicates(out)
    /\ pc = "build" =>
          \A v \in TravStarts : NoDuplicates(TraverseDepthFirst_Recursive(v, <<>>))

\* C23: each of the three traversals terminates on every graph, cycles,
\* self-loops and duplicate edges included: a loop that has started reaches
\* its end, the recursive traversal returns, and no vertex is entered,
\* pushed or enqueued more than once.
C23_TraversalsTerminate ==
    /\ (pc = "loop") ~> (pc = "done")
    /\ []C23_VisitedOnce

\* a loop has finished on a graph with a cycle through the start vertex
\* and an edge from it stored twice
C23_Witness ==
    /\ pc = "done"
    /\ alg \in {"DFS_NR", "BFS_NR"}
    /\ kind = "GraphAdjecencyList"
    /\ m_isDirected
    /\ InRange(start)
    /\ \E b \in TravVertices \ {start} :
          /\ GetEdge(start, b) # 0
          /\ GetEdge(b, start) # 0
    /\ \E i, j \in 1..Len(m_vertices[start]) :
          i # j /\ m_vertices[start][i] = m_vertices[start][j]

\* s is an initial segment of t
IsPrefix(s, t) == Len(s) <= Len(t) /\ SubSeq(t, 1, Len(s)) = s

\* the invariant of the two loops, in a state of the iterative depth-first
\* or breadth-first traversal
C24_Invariant ==
    alg \in {"DFS_NR", "BFS_NR"} =>
        /\ NoDuplicates(visited)
        /\ visited # <<>>
        /\ visited[1] = start
        /\ Range(visited) = Range(out) \cup Range(Pending)
        /\ Range(out) \cap Range(Pending) = {}
        /\ NoDuplicates(out)
        /\ NoDuplicates(Pending)

\* a step of a loop leaves what visited held in place and adds to its end
C24_GrowsStep ==
    alg \in {"DFS_NR", "BFS_NR"} => IsPrefix(visited, visited')

\* C24: while the iterative depth-first or breadth-first loop runs, visited
\* only grows, has no duplicate, has held the start vertex from the
\* beginning, and holds exactly the vertices emitted plus the vertices on
\* the stack or queue, none of them in both and none pending twice.
C24_LoopInvariant == []C24_Invariant /\ [][C24_GrowsStep]_vars

\* the breadth-first loop has emitted the start vertex and holds two
\* vertices in the queue, on an edge list where an edge from the start
\* vertex is stored twice
C24_Witness ==
    /\ alg = "BFS_NR"
    /\ pc = "loop"
    /\ out = <<start>>
    /\ Len(queue) = 2
    /\ kind = "GraphEdgeList"
    /\ \E i, j \in 1..Len(m_edgeList) :
          i # j /\ m_edgeList[i] = m_edgeList[j] /\ m_edgeList[i].m_vertex1 = start

\* the vertices that k edges or fewer lead to from the start vertex
RECURSIVE Within(_)
Within(k) ==
    IF k = 0
    THEN {start}
    ELSE LET W == Within(k - 1)
         IN  W \cup {b \in Universe : \E a \in W : GetEdge(a, b) # 0}

\* the least number of edges that lead from the start vertex to v
HopDistance(v) ==
    CHOOSE k \in 0..size : v \in Within(k) /\ (k = 0 \/ v \notin Within(k - 1))

\* C25: on a directed graph of any variant, the vertices the breadth-first
\* traversal has emitted so far are reachable from the start vertex and
\* are in non-decreasing order of their hop distance from it.
C25_BreadthFirstByDistance ==
    (alg = "BFS_NR" /\ m_isDirected) =>
        /\ \A i \in 1..Len(out) : out[i] \in Within(size)
        /\ \A i, j \in 1..Len(out) :
              i < j => HopDistance(out[i]) <= HopDistance(out[j])

\* the traversal has finished after emitting four vertices, two at
\* distance 1 and then one at distance 2 that the first of the two leads to
\* (a stack would have emitted it before the second)
C25_Witness ==
    /\ alg = "BFS_NR"
    /\ pc = "done"
    /\ m_isDirected
    /\ Len(out) = 4
    /\ HopDistance(out[2]) = 1
    /\ HopDistance(out[3]) = 1
    /\ HopDistance(out[4]) = 2
    /\ GetEdge(out[2], out[4]) # 0

\* no pair of vertices was given to SetEdge twice (in an undirected graph
\* (a,b) and (b,a) are the same pair); the edge list holds the calls
NoPairTwice ==
    \A i, j \in 1..Len(m_edgeList) :
        i # j => ~GraphEdgeList_Match(m_edgeList[i], m_edgeList[j].m_vertex1,
                                      m_edgeList[j].m_vertex2)

\* {e.m_vertex2 : e in edges}
Neighbours(edges) == {edges[i].m_vertex2 : i \in 1..Len(edges)}

\* every edge of GetEdges(v) has m_vertex1 == v
From(edges, v) == \A i \in 1..Len(edges) : edges[i].m_vertex1 = v

VariantsAgree ==
    /\ \A a \in TravVertices, b \in TravVertices :
          /\ GraphEdgeList_GetEdge(a, b) = GraphAdjecencyMatrix_GetEdge(a, b)
          /\ GraphAdjecencyList_GetEdge(a, b) = GraphAdjecencyMatrix_GetEdge(a, b)
    /\ \A v \in TravVertices :
          /\ Neighbours(GraphEdgeList_GetEdges(v))
                = Neighbours(GraphAdjecencyMatrix_GetEdges(v))
          /\ Neighbours(GraphAdjecencyList_GetEdges(v))
                = Neighbours(GraphAdjecencyMatrix_GetEdges(v))
          /\ From(GraphEdgeList_GetEdges(v), v)
          /\ From(GraphAdjecencyMatrix_GetEdges(v), v)
          /\ From(GraphAdjecencyList_GetEdges(v), v)

\* C26: after the same SetEdge calls (vertices in range, weights not zero,
\* no pair set twice) on the three variants with the same isDirected, the
\* three return the same GetEdge(a,b) for every pair and, for every vertex
\* v, the same set of neighbours, every edge of GetEdges(v) starting at v.
C26_VariantsInterchangeable == NoPairTwice => VariantsAgree

\* C26 holds of the directed graphs.
C26_DirectedVariantsInterchangeable ==
    (NoPairTwice /\ m_isDirected) => VariantsAgree

\* the matrix and the adjacency list agree with each other, undirected
\* graphs included: the edge list is the one that differs
C26_SizedVariantsInterchangeable ==
    NoPairTwice =>
        /\ \A a \in TravVertices, b \in TravVertices :
              GraphAdjecencyList_GetEdge(a, b) = GraphAdjecencyMatrix_GetEdge(a, b)
        /\ \A v \in TravVertices :
              /\ Neighbours(GraphAdjecencyList_GetEdges(v))
                    = Neighbours(GraphAdjecencyMatrix_GetEdges(v))
              /\ From(GraphAdjecencyMatrix_GetEdges(v), v)
              /\ From(GraphAdjecencyList_GetEdges(v), v)

\* the heap H without the leaf n: n is released and the link of its parent
\* that pointed to it is null
WithoutLeaf(H, n) ==
    LET p == H.p[n]
    IN  [d |-> [H.d EXCEPT ![n] = 0],
         p |-> [H.p EXCEPT ![n] = Null],
         l |-> IF H.l[p] = n THEN [H.l EXCEPT ![p] = Null] ELSE H.l,
         r |-> IF H.r[p] = n THEN [H.r EXCEPT ![p] = Null] ELSE H.r,
         a |-> H.a \ {n}]

\* the heap after the step
HeapAfter ==
    [d |-> m_nodeData', p |-> m_parent', l |-> m_left', r |-> m_right', a |-> alloc']

\* C27: Insert(v) of a value the tree does not hold, followed by Delete(v),
\* gives back the tree as it was before the Insert (the same nodes with the
\* same values and links, the same root), and the Delete returns the parent
\* of the node the Insert created.
C27_InsertDeleteRoundTrip ==
    [][\A v \in Values :
          /\ (SoundTree /\ Absent(v) /\ InsertStep(v))
                => LET n == treeLast'.ret
                       del == NodeBST_Delete(HeapAfter, treeRoot', v)
                   IN  /\ ~ub'
                       /\ WithoutLeaf(HeapAfter, n) = Heap
                       /\ ~del.ub
                       /\ del.found = n
                       /\ del.H = Heap
                       /\ del.ret = m_parent'[n]
          /\ (treeLast.op = "Insert" /\ content[v] = 1 /\ DeleteStep(v))
                => /\ treeLast.data = v
                   /\ HeapAfter = WithoutLeaf(Heap, treeLast.ret)
                   /\ treeRoot' = treeRoot
                   /\ treeLast'.ret = m_parent[treeLast.ret]
                   /\ ~ub']_vars

\* the Delete that follows the Insert of a new value has just returned a
\* node that is not the root: the value is no longer in the tree, which
\* has three nodes
C27_Witness ==
    /\ SoundTree
    /\ treeLast.op = "Delete"
    /\ Absent(treeLast.data)
    /\ treeLast.ret \in alloc \ {treeRoot}
    /\ Cardinality(alloc) = 3

\* the threads inside the read-modify-write of g_counter
InCounterUpdate == {t \in DOMAIN tpc : tpc[t] \in {"load", "store"}}

\* at most one thread is inside the read-modify-write of g_counter, and
\* when the main thread has joined all threads g_counter is 55
C28_ExclusiveAndExact ==
    /\ Cardinality(InCounterUpdate) <= 1
    /\ joined = numThreads => g_counter = 55
    /\ (\A t \in DOMAIN tpc : tpc[t] = "done") => g_counter = 55

\* C28: with each of the four thread functions, run by 10 threads with the
\* increments 1..10 from g_counter = 0, at most one thread is inside the
\* read-modify-write of g_counter at any time, every thread terminates and
\* is joined, and g_counter is 55 after the joins, in every interleaving.
C28_MutexDemo ==
    /\ []C28_ExclusiveAndExact
    /\ <>(joined = numThreads)

\* all threads have run MainRecursiveMutex and are joined
C28_Witness ==
    /\ threadMain = "MainRecursiveMutex"
    /\ joined = numThreads
    /\ g_counter = 55
    /\ g_recursiveMutex = [owner |-> NoThread, count |-> 0]

\* the waiters whose wait is over: past the loop of line 430, past the
\* call of line 448
PastWait == {t \in Waiters : t \in DOMAIN tpc /\ tpc[t] \in {"unlock", "done"}}

\* no waiter is past its wait while the value is not 1
C29_NoEarlyPass ==
    threadMain \in {"MainCVWaits", "MainCVWaitsCompact"} =>
        (PastWait # {} => g_sharedValueForCondition = 1)

Holding == {t \in DOMAIN tpc : tpc[t] \in {"working", "release"}}

\* at most SemaphoreMaxResources threads hold a resource, and the counter
\* is the number of resources not held
C30_Bounded ==
    /\ Cardinality(Holding) <= SemaphoreMaxResources
    /\ SemaphoreCounter \in 0..SemaphoreMaxResources
    /\ SemaphoreCounter + Cardinality(Holding) = SemaphoreMaxResources

\* a thread is done only by its release, and releases only after it has
\* acquired and worked
C30_InOrder ==
    \A t \in SemaphoreThreads :
        /\ tpc'[t] = "done" => tpc[t] \in {"release", "done"}
        /\ tpc'[t] = "release" => tpc[t] \in {"working", "release"}
        /\ tpc'[t] = "working" => tpc[t] \in {"acquire", "working"}

\* C30: with the semaphore constructed with SemaphoreMaxResources = 3 and
\* 10 threads running MainSemaphores, at most 3 threads are between
\* acquire() and release() at any time, the counter stays within 0..3, and
\* every thread acquires, finishes and releases.
C30_SemaphoreDemo ==
    /\ []C30_Bounded
    /\ [][C30_InOrder]_vars
    /\ <>(joined = Len(tpc) /\ \A t \in SemaphoreThreads : tpc[t] = "done")

\* all resources are held while threads are blocked in acquire and others
\* are done
C30_Witness ==
    /\ threadMain = "MainSemaphores"
    /\ SemaphoreCounter = 0
    /\ Cardinality(Holding) = SemaphoreMaxResources
    /\ \E t, u \in SemaphoreThreads : tpc[t] = "acquire" /\ tpc[u] = "done"

====
